---- MODULE Spec2Model ----
(***************************************************************************)
(* A model of src/src/publisher.js (@alphanull/publisher 1.6.2): the       *)
(* subscriber registry, the topic trie, the persistent message store, the  *)
(* matcher and the dispatcher.                                             *)
(*                                                                         *)
(* Modelling conventions                                                   *)
(*  - A JavaScript string is a sequence of one-character strings, so that  *)
(*    split('/'), indexOf('*') and the replay regular expression are       *)
(*    computed on characters.                                              *)
(*  - A JavaScript Map is either a sequence (where the code iterates it:   *)
(*    subscrs, a node's 'subscribers', persistentMessages) or a function   *)
(*    (where the code only uses get/set/delete: a node, a 'topics' map).   *)
(*  - A subscriber object lives in `objects`, keyed by its token; the      *)
(*    registry and the trie hold tokens, i.e. references to that object.   *)
(*  - An options object is a function whose domain holds the fields that   *)
(*    are set; each subscribe call is given an options object of its own.  *)
(*  - Other JavaScript values (arguments and results whose type varies)    *)
(*    are tagged records [t |-> type, v |-> value].                        *)
(*  - Handlers and conditions are code of the caller: a handler or         *)
(*    condition is a name, and HandlerResult / ConditionResult say what    *)
(*    the function of that name does with a payload.                       *)
(*  - Every operation is an operator from a world W (a record of the       *)
(*    whole program state) to [w |-> the world after, ret |-> its result], *)
(*    a thrown exception being the result Throw(..).                       *)
(***************************************************************************)
EXTENDS Integers, Sequences, FiniteSets, TLC

VARIABLES
    globalOptions,      \* publisher.js:17   the global options
    tokenCounter,       \* publisher.js:29   last token handed out
    objects,            \* the subscriber objects built at publisher.js:178, by token
    subscrs,            \* publisher.js:38   the registry: tokens in insertion order
    subsTree,           \* publisher.js:46   the root of the topic trie
    persistentMessages, \* publisher.js:54   stored messages in insertion order
    queue,              \* the units handed to deferExecution and not yet run
    calls,              \* history: the handler invocations of the last operation
    invoked,            \* history: per token with an invocation budget, [budget, count]
    lastOp              \* history: the last operation, its arguments and its result

vars == << globalOptions, tokenCounter, objects, subscrs, subsTree,
           persistentMessages, queue, calls, invoked, lastOp >>

-----------------------------------------------------------------------------
(* Bounds *)

MaxQueue == 2       \* at most MaxQueue deferred units are pending
MatchTokens == 2    \* SpecMatch: subscribe is called at most MatchTokens times
OrderTokens == 3    \* SpecOrder: subscribe is called at most OrderTokens times
CancelTokens == 3   \* SpecCancel: subscribe is called at most CancelTokens times
AsyncTokens == 2    \* SpecAsync: subscribe is called at most AsyncTokens times
BudgetTokens == 2   \* SpecBudget: subscribe is called at most BudgetTokens times
CondTokens == 2     \* SpecCond: subscribe is called at most CondTokens times
PersistTokens == 2  \* SpecPersist: subscribe is called at most PersistTokens times
ReplayTokens == 2   \* SpecReplay: subscribe is called at most ReplayTokens times
UnsubTokens == 3    \* SpecUnsub: subscribe is called at most UnsubTokens times
LenientTokens == 2  \* SpecLenient: subscribe is called at most LenientTokens times
TopicTokens == 3    \* SpecTopicUnsub: subscribe is called at most TopicTokens times
ErrorTokens == 2    \* SpecErrors: subscribe is called at most ErrorTokens times
PruneTokens == 3    \* SpecPrune: subscribe is called at most PruneTokens times
ExceptTokens == 3   \* SpecExcept: subscribe is called at most ExceptTokens times
IsolateTokens == 2  \* SpecIsolate: subscribe is called at most IsolateTokens times
UniformTokens == 2  \* SpecUniform: subscribe is called at most UniformTokens times
ExactTokens == 2    \* SpecExact: subscribe is called at most ExactTokens times
FifoTokens == 2     \* SpecFifo: subscribe is called at most FifoTokens times
WildTokens == 2     \* SpecWildPersist: subscribe is called at most WildTokens times
ArrayTokens == 3    \* SpecArray: subscribe is called at most ArrayTokens times
SnapTokens == 3     \* SpecSnapshot: subscribe is called at most SnapTokens times
DrainTokens == 2    \* SpecDrain: subscribe is called at most DrainTokens times

-----------------------------------------------------------------------------
(* JavaScript values *)

Undefined == [t |-> "undefined"]
Bool(b) == [t |-> "boolean", v |-> b]
Num(n) == [t |-> "number", v |-> n]
Str(s) == [t |-> "string", v |-> s]
Fn(h) == [t |-> "function", v |-> h]
Obj(id, fields) == [t |-> "object", id |-> id, v |-> fields]
Arr(a) == [t |-> "array", v |-> a]
Throw(e) == [t |-> "throw", v |-> e]

isUndefined(obj) == obj.t = "undefined"

IsThrow(r) == r.t = "throw"

\* x === false, for a tagged value
IsFalse(x) == x.t = "boolean" /\ x.v = FALSE

\* an object literal {} and field access on an options object
EmptyObject == [k \in {} |-> TRUE]

Has(o, k) == k \in DOMAIN o

\* o[k] === b, for a boolean b
FieldIs(o, k, b) == Has(o, k) /\ o[k] = b

\* map.delete(k) on a Map modelled as a function
Without(m, k) == [x \in DOMAIN m \ {k} |-> m[x]]

\* map.set(k, v) on a Map modelled as a function
With(m, k, val) == [x \in DOMAIN m \cup {k} |-> IF x = k THEN val ELSE m[x]]

\* map.set(token, ..) / map.delete(token) / map.has(token) on a Map modelled
\* as the sequence of its keys: a new key goes last, a present key keeps its place
SeqHas(s, k) == \E i \in 1..Len(s) : s[i] = k

SeqSet(s, k) == IF SeqHas(s, k) THEN s ELSE Append(s, k)

SeqDelete(s, k) == SelectSeq(s, LAMBDA x : x # k)

-----------------------------------------------------------------------------
(* Strings *)

\* str.indexOf(ch) > -1, for a single character ch
includesChar(str, ch) == \E i \in 1..Len(str) : str[i] = ch

\* str.includes(word)
includes(str, word) ==
    \E i \in 0..(Len(str) - Len(word)) :
        \A j \in 1..Len(word) : str[i + j] = word[j]

\* str.split('/')
RECURSIVE split(_)
split(str) ==
    IF ~ includesChar(str, "/")
    THEN << str >>
    ELSE LET i == CHOOSE k \in 1..Len(str) :
                      str[k] = "/" /\ \A j \in 1..(k - 1) : str[j] # "/"
         IN  << SubSeq(str, 1, i - 1) >> \o split(SubSeq(str, i + 1, Len(str)))

-----------------------------------------------------------------------------
(* Caller code: handlers and conditions *)

\* What the handler named h returns (or throws) for a payload.
HandlerResult(h, data) ==
    CASE h = "h_false" -> Bool(FALSE)
      [] h = "h_true" -> Bool(TRUE)
      [] h = "h_throw" -> Throw("handler")
      [] h = "h_false_on_d1" -> IF data = "d1" THEN Bool(FALSE) ELSE Undefined
      [] h = "h_throw_on_d1" -> IF data = "d1" THEN Throw("handler") ELSE Undefined
      [] OTHER -> Undefined

\* What the condition named c returns for a payload.
ConditionResult(c, data) ==
    CASE c = "c_true" -> Bool(TRUE)
      [] c = "c_false" -> Bool(FALSE)
      [] c = "c_d1" -> Bool(data = "d1")
      [] c = "c_truthy" -> Num(1)
      [] OTHER -> Undefined

-----------------------------------------------------------------------------
(* The topic trie: publisher.js:391-459 *)

\* A thrown TypeError, as the result of an operator that yields a trie node
TypeError == [error |-> "TypeError"]

IsError(node) == "error" \in DOMAIN node

RECURSIVE addSubscription(_, _, _)
addSubscription(topicArray, subscriber, subscriptions) ==
    LET topic == topicArray[1]
        withTopics == IF Has(subscriptions, "topics")
                      THEN subscriptions
                      ELSE With(subscriptions, "topics", EmptyObject)
        subTopic == withTopics.topics
        subscription == IF topic \in DOMAIN subTopic
                        THEN subTopic[topic]
                        ELSE EmptyObject
        filled ==
            IF Len(topicArray) < 2
            THEN LET withSubs == IF Has(subscription, "subscribers")
                                 THEN subscription
                                 ELSE With(subscription, "subscribers", << >>)
                 IN  [withSubs EXCEPT
                         !.subscribers = SeqSet(@, subscriber.token)]
            ELSE addSubscription(Tail(topicArray), subscriber, subscription)
    IN  [withTopics EXCEPT !.topics = With(@, topic, filled)]

\* removeSubscription changed: no cleanup of empty graph elements
RECURSIVE removeSubscriptionNoCleanup(_, _, _)
removeSubscriptionNoCleanup(topicArray, subscriber, subscriptions) ==
    LET topic == topicArray[1] IN
    IF ~ Has(subscriptions, "topics")
    THEN TypeError
    ELSE
    LET topics == subscriptions.topics IN
    IF topic \notin DOMAIN topics
    THEN TypeError
    ELSE
    LET subTopic == topics[topic]
        removed ==
            IF Len(topicArray) < 2
            THEN IF ~ Has(subTopic, "subscribers")
                 THEN TypeError
                 ELSE LET subscribers ==
                              SeqDelete(subTopic.subscribers, subscriber.token)
                      IN  IF Len(subscribers) = 0
                          THEN Without(subTopic, "subscribers")
                          ELSE [subTopic EXCEPT !.subscribers = subscribers]
            ELSE removeSubscriptionNoCleanup(Tail(topicArray), subscriber, subTopic)
    IN  IF IsError(removed)
        THEN TypeError
        ELSE [subscriptions EXCEPT !.topics = With(@, topic, removed)]

RECURSIVE removeSubscription(_, _, _)
removeSubscription(topicArray, subscriber, subscriptions) ==
    LET topic == topicArray[1] IN
    IF ~ Has(subscriptions, "topics")
    THEN TypeError                      \* topics.get on undefined
    ELSE
    LET topics == subscriptions.topics IN
    IF topic \notin DOMAIN topics
    THEN TypeError                      \* subTopic.get on undefined
    ELSE
    LET subTopic == topics[topic]
        removed ==
            IF Len(topicArray) < 2
            THEN IF ~ Has(subTopic, "subscribers")
                 THEN TypeError         \* subscribers.delete on undefined
                 ELSE LET subscribers ==
                              SeqDelete(subTopic.subscribers, subscriber.token)
                      IN  IF Len(subscribers) = 0
                          THEN Without(subTopic, "subscribers")
                          ELSE [subTopic EXCEPT !.subscribers = subscribers]
            ELSE removeSubscription(Tail(topicArray), subscriber, subTopic)
    IN  IF IsError(removed)
        THEN TypeError
        ELSE
        \* cleanup any empty graph elements
        LET cleaned == IF Has(removed, "topics") /\ DOMAIN removed.topics = {}
                       THEN Without(removed, "topics")
                       ELSE removed
        IN  IF DOMAIN cleaned = {}
            THEN [subscriptions EXCEPT !.topics = Without(@, topic)]
            ELSE [subscriptions EXCEPT !.topics = With(@, topic, cleaned)]

-----------------------------------------------------------------------------
(* The matcher: publisher.js:339-381 *)

\* conditionPasses changed: any truthy result of the condition passes
conditionPassesTruthy(subscriber, data) ==
    \/ ~ Has(subscriber.options, "condition")
    \/ ConditionResult(subscriber.options.condition, data) \in { Bool(TRUE), Num(1) }

\* The test of publisher.js:348 on one subscriber
conditionPasses(subscriber, data) ==
    \/ ~ Has(subscriber.options, "condition")
    \/ ConditionResult(subscriber.options.condition, data) = Bool(TRUE)

\* The loop of publisher.js:344-355 over the subscribers of a node, from
\* the i-th on: a passing subscriber is pushed and given position, priority
\* and async (publisher.js:350-352)
RECURSIVE collectSubscribers(_, _, _, _, _, _)
collectSubscribers(subscribers, i, data, options, W, handlerArray) ==
    IF i > Len(subscribers)
    THEN handlerArray
    ELSE LET subscriber == W.objects[subscribers[i]]
             pushed ==
                 IF conditionPasses(subscriber, data)
                 THEN Append(handlerArray,
                        [token |-> subscriber.token,
                         position |-> Len(handlerArray) + 1,
                         priority |-> IF Has(subscriber.options, "priority")
                                      THEN subscriber.options.priority
                                      ELSE 0,
                         async |-> \/ FieldIs(options, "async", TRUE)
                                   \/ FieldIs(subscriber.options, "async", TRUE)
                                   \/ W.globalOptions.async])
                 ELSE handlerArray
         IN  collectSubscribers(subscribers, i + 1, data, options, W, pushed)

RECURSIVE findSubscribers(_, _, _, _, _, _)

\* findSubscribers changed: a node's subscribers are collected only when no
\* segment of the published topic is left (exact matching)
findSubscribersLeafOnly(topicArray, data, options, subscriptions, W, handlerArray) ==
    LET subscribers == IF Has(subscriptions, "subscribers") /\ Len(topicArray) = 0
                       THEN subscriptions.subscribers
                       ELSE << >>
        here == collectSubscribers(subscribers, 1, data, options, W, handlerArray)
    IN  IF Len(topicArray) > 0 /\ Has(subscriptions, "topics")
        THEN LET topics == subscriptions.topics
                 afterWild ==
                     IF << "*" >> \in DOMAIN topics
                     THEN findSubscribers(Tail(topicArray), data, options,
                                          topics[<< "*" >>], W, here)
                     ELSE here
             IN  IF topicArray[1] \in DOMAIN topics
                 THEN findSubscribers(Tail(topicArray), data, options,
                                      topics[topicArray[1]], W, afterWild)
                 ELSE afterWild
        ELSE here

\* findSubscribers changed: the '*' child is looked up only for the last
\* segment of the published topic
findSubscribersWildLast(topicArray, data, options, subscriptions, W, handlerArray) ==
    LET subscribers == IF Has(subscriptions, "subscribers")
                       THEN subscriptions.subscribers
                       ELSE << >>
        here == collectSubscribers(subscribers, 1, data, options, W, handlerArray)
    IN  IF Len(topicArray) > 0 /\ Has(subscriptions, "topics")
        THEN LET topics == subscriptions.topics
                 afterWild ==
                     IF << "*" >> \in DOMAIN topics /\ Len(topicArray) = 1
                     THEN findSubscribers(Tail(topicArray), data, options,
                                          topics[<< "*" >>], W, here)
                     ELSE here
             IN  IF topicArray[1] \in DOMAIN topics
                 THEN findSubscribers(Tail(topicArray), data, options,
                                      topics[topicArray[1]], W, afterWild)
                 ELSE afterWild
        ELSE here

\* findSubscribers changed: the '*' child is entered even when no segment
\* of the published topic is left
findSubscribersWildEmpty(topicArray, data, options, subscriptions, W, handlerArray) ==
    LET subscribers == IF Has(subscriptions, "subscribers")
                       THEN subscriptions.subscribers
                       ELSE << >>
        here == collectSubscribers(subscribers, 1, data, options, W, handlerArray)
    IN  IF Has(subscriptions, "topics")
        THEN LET topics == subscriptions.topics
                 rest == IF Len(topicArray) > 0 THEN Tail(topicArray) ELSE << >>
                 afterWild ==
                     IF << "*" >> \in DOMAIN topics
                     THEN findSubscribers(rest, data, options,
                                          topics[<< "*" >>], W, here)
                     ELSE here
             IN  IF Len(topicArray) > 0 /\ topicArray[1] \in DOMAIN topics
                 THEN findSubscribers(rest, data, options,
                                      topics[topicArray[1]], W, afterWild)
                 ELSE afterWild
        ELSE here

\* findSubscribers changed: the child of the literal segment is entered
\* only when the node has no '*' child (else if)
findSubscribersWildOnly(topicArray, data, options, subscriptions, W, handlerArray) ==
    LET subscribers == IF Has(subscriptions, "subscribers")
                       THEN subscriptions.subscribers
                       ELSE << >>
        here == collectSubscribers(subscribers, 1, data, options, W, handlerArray)
    IN  IF Len(topicArray) > 0 /\ Has(subscriptions, "topics")
        THEN LET topics == subscriptions.topics
             IN  IF << "*" >> \in DOMAIN topics
                 THEN findSubscribers(Tail(topicArray), data, options,
                                      topics[<< "*" >>], W, here)
                 ELSE IF topicArray[1] \in DOMAIN topics
                 THEN findSubscribers(Tail(topicArray), data, options,
                                      topics[topicArray[1]], W, here)
                 ELSE here
        ELSE here

findSubscribers(topicArray, data, options, subscriptions, W, handlerArray) ==
    LET subscribers == IF Has(subscriptions, "subscribers")
                       THEN subscriptions.subscribers
                       ELSE << >>
        here == collectSubscribers(subscribers, 1, data, options, W, handlerArray)
    IN  IF Len(topicArray) > 0 /\ Has(subscriptions, "topics")
        THEN LET topics == subscriptions.topics
                 afterWild ==
                     IF << "*" >> \in DOMAIN topics
                     THEN findSubscribers(Tail(topicArray), data, options,
                                          topics[<< "*" >>], W, here)
                     ELSE here
             IN  IF topicArray[1] \in DOMAIN topics
                 THEN findSubscribers(Tail(topicArray), data, options,
                                      topics[topicArray[1]], W, afterWild)
                 ELSE afterWild
        ELSE here

\* compare changed: lower priorities first
compareAscending(a, b) ==
    IF a.priority = b.priority
    THEN a.position - b.position
    ELSE IF a.priority > b.priority THEN 1 ELSE -1

\* compare changed: equal priorities in the order of subscription
compareByToken(a, b) ==
    IF a.priority = b.priority
    THEN a.token - b.token
    ELSE IF a.priority > b.priority THEN -1 ELSE 1

\* The comparator of publisher.js:121-125
compare(a, b) ==
    IF a.priority = b.priority
    THEN a.position - b.position
    ELSE IF a.priority > b.priority THEN -1 ELSE 1

\* Array.prototype.sort with that comparator, as an insertion sort
RECURSIVE insertSorted(_, _)
insertSorted(x, sorted) ==
    IF sorted = << >>
    THEN << x >>
    ELSE IF compare(x, Head(sorted)) < 0
         THEN << x >> \o sorted
         ELSE << Head(sorted) >> \o insertSorted(x, Tail(sorted))

RECURSIVE sort(_)
sort(array) ==
    IF array = << >>
    THEN << >>
    ELSE insertSorted(array[Len(array)], sort(SubSeq(array, 1, Len(array) - 1)))

-----------------------------------------------------------------------------
(* unsubscribe: publisher.js:221-276 *)

\* unsubscribeToken changed: the subscriber is deleted from the registry
\* and stays in the trie
unsubscribeTokenRegistryOnly(W, token, lenient) ==
    IF ~ (token.t = "number" /\ SeqHas(W.subscrs, token.v))
    THEN IF lenient = Bool(TRUE)
         THEN [w |-> W, ret |-> Undefined]
         ELSE [w |-> W, ret |-> Throw("Unsubscribe failed. Did not find subscriber for token")]
    ELSE [w |-> [W EXCEPT !.subscrs = SeqDelete(@, token.v)], ret |-> Undefined]

\* unsubscribeToken changed: a token that is not registered fails in
\* lenient mode too
unsubscribeTokenStrict(W, token, lenient) ==
    IF ~ (token.t = "number" /\ SeqHas(W.subscrs, token.v))
    THEN [w |-> W, ret |-> Throw("Unsubscribe failed. Did not find subscriber for token")]
    ELSE LET subscriber == W.objects[token.v]
             tree == removeSubscription(split(subscriber.topic), subscriber, W.subsTree)
         IN  IF IsError(tree)
             THEN [w |-> W, ret |-> Throw("TypeError")]
             ELSE [w |-> [W EXCEPT !.subsTree = tree,
                                   !.subscrs = SeqDelete(@, token.v)],
                   ret |-> Undefined]

\* publisher.js:226-238, with subscriber a token or any other value
unsubscribeToken(W, token, lenient) ==
    IF ~ (token.t = "number" /\ SeqHas(W.subscrs, token.v))
    THEN IF lenient = Bool(TRUE)
         THEN [w |-> W, ret |-> Undefined]
         ELSE [w |-> W, ret |-> Throw("Unsubscribe failed. Did not find subscriber for token")]
    ELSE LET subscriber == W.objects[token.v]
             tree == removeSubscription(split(subscriber.topic), subscriber, W.subsTree)
         IN  IF IsError(tree)
             THEN [w |-> W, ret |-> Throw("TypeError")]
             ELSE [w |-> [W EXCEPT !.subsTree = tree,
                                   !.subscrs = SeqDelete(@, token.v)],
                   ret |-> Undefined]

\* unsubscribeEach changed: all or nothing, the call fails before it
\* removes anything when one of the tokens is not registered
RECURSIVE unsubscribeEachAtomic(_, _, _, _)
unsubscribeEachAtomic(W, tokens, i, lenient) ==
    IF /\ lenient # Bool(TRUE)
       /\ \E k \in i..Len(tokens) :
              ~ (tokens[k].t = "number" /\ SeqHas(W.subscrs, tokens[k].v))
    THEN [w |-> W, ret |-> Throw("Unsubscribe failed. Did not find subscriber for token")]
    ELSE IF i > Len(tokens)
    THEN [w |-> W, ret |-> Undefined]
    ELSE LET r == unsubscribeToken(W, tokens[i], lenient)
         IN  IF IsThrow(r.ret) THEN r ELSE unsubscribeEachAtomic(r.w, tokens, i + 1, lenient)

\* unsubscribeEach changed: the subscribers are deleted from the registry
\* and stay in the trie
RECURSIVE unsubscribeEachRegistryOnly(_, _, _, _)
unsubscribeEachRegistryOnly(W, tokens, i, lenient) ==
    IF i > Len(tokens)
    THEN [w |-> W, ret |-> Undefined]
    ELSE LET r == unsubscribeTokenRegistryOnly(W, tokens[i], lenient)
         IN  IF IsThrow(r.ret)
             THEN r
             ELSE unsubscribeEachRegistryOnly(r.w, tokens, i + 1, lenient)

\* publisher.js:248: topicOrToken.forEach(unsubscribeToken), from the i-th on
RECURSIVE unsubscribeEach(_, _, _, _)
unsubscribeEach(W, tokens, i, lenient) ==
    IF i > Len(tokens)
    THEN [w |-> W, ret |-> Undefined]
    ELSE LET r == unsubscribeToken(W, tokens[i], lenient)
         IN  IF IsThrow(r.ret) THEN r ELSE unsubscribeEach(r.w, tokens, i + 1, lenient)

\* unsubscribeTopic changed: the scan goes on after a match (no break), and
\* removes every subscriber of that topic and handler
RECURSIVE unsubscribeTopicAll(_, _, _, _)
unsubscribeTopicAll(W, topic, handler, i) ==
    IF i > Len(W.subscrs)
    THEN [w |-> W, ret |-> Undefined]
    ELSE LET subscriber == W.objects[W.subscrs[i]] IN
         IF Fn(subscriber.handler) = handler /\ subscriber.topic = topic
         THEN LET tree == removeSubscription(split(topic), subscriber, W.subsTree)
              IN  IF IsError(tree)
                  THEN [w |-> W, ret |-> Throw("TypeError")]
                  ELSE unsubscribeTopicAll([W EXCEPT !.subsTree = tree,
                                                     !.subscrs = SeqDelete(@, subscriber.token)],
                                           topic, handler, i)
         ELSE unsubscribeTopicAll(W, topic, handler, i + 1)

\* publisher.js:266-272: the scan of the registry for topic and handler,
\* from the i-th subscriber on
RECURSIVE unsubscribeTopic(_, _, _, _)
unsubscribeTopic(W, topic, handler, i) ==
    IF i > Len(W.subscrs)
    THEN [w |-> W, ret |-> Undefined]
    ELSE LET subscriber == W.objects[W.subscrs[i]] IN
         IF Fn(subscriber.handler) = handler /\ subscriber.topic = topic
         THEN LET tree == removeSubscription(split(topic), subscriber, W.subsTree)
              IN  IF IsError(tree)
                  THEN [w |-> W, ret |-> Throw("TypeError")]
                  ELSE [w |-> [W EXCEPT !.subsTree = tree,
                                        !.subscrs = SeqDelete(@, subscriber.token)],
                        ret |-> Undefined]
         ELSE unsubscribeTopic(W, topic, handler, i + 1)

Digits == {"0", "1", "2", "3", "4", "5", "6", "7", "8", "9"}

\* publisher.js:250: !isNaN(parseFloat(x)) && isFinite(x)
isNumeric(x) ==
    \/ x.t = "number"
    \/ x.t = "string" /\ Len(x.v) > 0 /\ \A i \in 1..Len(x.v) : x.v[i] \in Digits

\* unsubscribe changed: the call is lenient when the argument or the global
\* default is true (lenientArg || globalOptions.lenientUnsubscribe)
unsubscribeGlobalWins(W, topicOrToken, handler, lenientUnsubscribe) ==
    LET lenientArg == IF handler.t = "boolean" THEN handler ELSE lenientUnsubscribe
        lenient == IF lenientArg = Bool(TRUE) \/ W.globalOptions.lenientUnsubscribe
                   THEN Bool(TRUE)
                   ELSE Bool(FALSE)
    IN  IF isUndefined(topicOrToken)
        THEN IF lenient = Bool(TRUE)
             THEN [w |-> W, ret |-> Undefined]
             ELSE [w |-> W, ret |-> Throw("Unsubscribe failed. No Arguments specified.")]
        ELSE IF topicOrToken.t = "array"
        THEN unsubscribeEach(W, topicOrToken.v, 1, lenient)
        ELSE IF isNumeric(topicOrToken)
        THEN unsubscribeToken(W, topicOrToken, lenient)
        ELSE IF isUndefined(handler)
        THEN IF lenient = Bool(TRUE)
             THEN [w |-> W, ret |-> Undefined]
             ELSE [w |-> W, ret |-> Throw("Unsubscribe failed. No handler for topic based unsubscribe specified")]
        ELSE unsubscribeTopic(W, topicOrToken.v, handler, 1)

unsubscribe(W, topicOrToken, handler, lenientUnsubscribe) ==
    LET lenientArg == IF handler.t = "boolean" THEN handler ELSE lenientUnsubscribe
        lenient == IF isUndefined(lenientArg)
                   THEN Bool(W.globalOptions.lenientUnsubscribe)
                   ELSE lenientArg
    IN  IF isUndefined(topicOrToken)
        THEN IF lenient = Bool(TRUE)
             THEN [w |-> W, ret |-> Undefined]
             ELSE [w |-> W, ret |-> Throw("Unsubscribe failed. No Arguments specified.")]
        ELSE IF topicOrToken.t = "array"
        THEN unsubscribeEach(W, topicOrToken.v, 1, lenient)
        ELSE IF isNumeric(topicOrToken)
        THEN unsubscribeToken(W, topicOrToken, lenient)
        ELSE IF isUndefined(handler)
        THEN IF lenient = Bool(TRUE)
             THEN [w |-> W, ret |-> Undefined]
             ELSE [w |-> W, ret |-> Throw("Unsubscribe failed. No handler for topic based unsubscribe specified")]
        ELSE unsubscribeTopic(W, topicOrToken.v, handler, 1)

-----------------------------------------------------------------------------
(* Handler invocation *)

\* history: one more invocation of a handler that has an invocation budget
countInvocation(inv, token) ==
    IF inv[token].budget > 0 /\ inv[token].count <= inv[token].budget
    THEN [inv EXCEPT ![token].count = @ + 1]
    ELSE inv

\* history: a subscriber with an invocation budget starts its count
startCount(inv, token, options) ==
    With(inv, token, [budget |-> IF Has(options, "invocations") /\ options.invocations > 0
                                  THEN options.invocations ELSE 0,
                      count |-> 0])

\* publisher.js:161-188: subscribe up to `if (options.persist !== true)
\* return token`: the token, the three tests of the arguments, the entry in
\* the registry and in the trie. optionsArg is the reference the caller
\* passes: the options object `id`, whose fields are `v` at the time of
\* the call
subscribeEntry(W, topic, handler, optionsArg) ==
    LET token == W.tokenCounter + 1
        options == optionsArg.v
        W1 == [W EXCEPT !.tokenCounter = token]
    IN  IF isUndefined(topic)
        THEN [w |-> W1, ret |-> Throw("Subscribe failed - undefined Topic.")]
        ELSE IF includes(topic.v, << "u", "n", "d", "e", "f", "i", "n", "e", "d" >>)
        THEN [w |-> W1, ret |-> Throw("Subscribe failed - found 'undefined' in topic")]
        ELSE IF isUndefined(handler)
        THEN [w |-> W1, ret |-> Throw("Subscribe failed - undefined Handler")]
        ELSE
        LET subscriber == [token |-> token, topic |-> topic.v,
                           handler |-> handler.v, options |-> options,
                           optionsRef |-> optionsArg.id]
        IN  [w |-> [W1 EXCEPT
                       !.objects = With(@, token, subscriber),
                       !.invoked = startCount(@, token, options),
                       !.subscrs = SeqSet(@, token),
                       !.subsTree = addSubscription(split(topic.v), subscriber, @)],
             ret |-> Num(token)]

\* What the handler named h does to the publisher while it runs: the
\* handler h_unsubscribe_1 calls unsubscribe(1, true), which is the call
\* by token of publisher.js:226-238 and 250-252, lenient; the handler
\* h_subscribe calls subscribe('a', h), as long as fewer than SnapTokens
\* tokens were issued; the other handlers call nothing. subscribe('a', h)
\* has no option persist, so it returns at publisher.js:188.
HandlerEffect(W, h) ==
    CASE h = "h_unsubscribe_1" -> unsubscribeToken(W, Num(1), Bool(TRUE)).w
      [] h = "h_subscribe" ->
             IF W.tokenCounter + 1 < SnapTokens
             THEN subscribeEntry(W, Str(<< "a" >>), Fn("h"),
                                 Obj(W.tokenCounter + 1, EmptyObject)).w
             ELSE W
      [] OTHER -> W

\* The call of publisher.js:314 and 318: handler(data, topic), or
\* handler(topic, data) with the option topicArg
callHandler(W, subscriber, topic, data) ==
    LET ret == HandlerResult(subscriber.handler, data)
        call == [token |-> subscriber.token,
                 first |-> IF FieldIs(subscriber.options, "topicArg", TRUE)
                           THEN "topic" ELSE "data",
                 topic |-> topic,
                 data |-> data,
                 ret |-> ret]
    IN  [w |-> HandlerEffect([W EXCEPT !.calls = Append(@, call),
                                       !.invoked = countInvocation(@, subscriber.token)],
                             subscriber.handler),
         ret |-> ret]

-----------------------------------------------------------------------------
(* executeHandler: publisher.js:301-325 *)

\* publisher.js:307: `subscriber.options.invocations -= 1` writes to the
\* options object the caller passed to subscribe, which every subscriber
\* created with that same object refers to
decrementInvocations(objs, ref) ==
    [t \in DOMAIN objs |->
        IF objs[t].optionsRef = ref
        THEN [objs[t] EXCEPT !.options.invocations = @ - 1]
        ELSE objs[t]]

\* publisher.js:306-309: the invocation budget
countDown(W, subscriber) ==
    IF Has(subscriber.options, "invocations") /\ subscriber.options.invocations > 0
    THEN LET W1 == [W EXCEPT !.objects = decrementInvocations(@, subscriber.optionsRef)]
         IN  IF W1.objects[subscriber.token].options.invocations < 1
             THEN unsubscribe(W1, Num(subscriber.token), Undefined, Undefined)
             ELSE [w |-> W1, ret |-> Undefined]
    ELSE [w |-> W, ret |-> Undefined]

\* publisher.js:313: whether an exception of the handler is left uncaught
propagates(W, options) ==
    ~ FieldIs(options, "handleExceptions", TRUE) /\ W.globalOptions.handleExceptions # TRUE

\* executeHandler changed: no test that the subscriber is still registered
executeHandlerNoGuard(W, subscriber, topic, data, options) ==
    LET counted == countDown(W, W.objects[subscriber.token]) IN
    IF IsThrow(counted.ret)
    THEN counted
    ELSE LET called == callHandler(counted.w, W.objects[subscriber.token], topic, data)
         IN  IF IsThrow(called.ret) /\ ~ propagates(W, options)
             THEN [w |-> called.w, ret |-> Undefined]
             ELSE called

\* executeHandler changed: the test is whether the token was ever issued,
\* not whether the subscriber is registered now
executeHandlerEverIssued(W, subscriber, topic, data, options) ==
    IF subscriber.token \notin DOMAIN W.objects
    THEN [w |-> W, ret |-> Undefined]
    ELSE LET counted == countDown(W, W.objects[subscriber.token]) IN
         IF IsThrow(counted.ret)
         THEN counted
         ELSE LET called == callHandler(counted.w, W.objects[subscriber.token], topic, data)
              IN  IF IsThrow(called.ret) /\ ~ propagates(W, options)
                  THEN [w |-> called.w, ret |-> Undefined]
                  ELSE called

\* executeHandler changed: the catch block returns false
executeHandlerCaughtFalse(W, subscriber, topic, data, options) ==
    IF ~ SeqHas(W.subscrs, subscriber.token)
    THEN [w |-> W, ret |-> Undefined]
    ELSE LET counted == countDown(W, W.objects[subscriber.token]) IN
         IF IsThrow(counted.ret)
         THEN counted
         ELSE LET called == callHandler(counted.w, W.objects[subscriber.token], topic, data)
              IN  IF IsThrow(called.ret) /\ ~ propagates(W, options)
                  THEN [w |-> called.w, ret |-> Bool(FALSE)]
                  ELSE called

executeHandler(W, subscriber, topic, data, options) ==
    \* prevent async handler to be called when subscriber has been removed meanwhile
    IF ~ SeqHas(W.subscrs, subscriber.token)
    THEN [w |-> W, ret |-> Undefined]
    ELSE LET counted == countDown(W, W.objects[subscriber.token]) IN
         IF IsThrow(counted.ret)
         THEN counted
         ELSE LET called == callHandler(counted.w, W.objects[subscriber.token], topic, data)
              IN  IF IsThrow(called.ret) /\ ~ propagates(W, options)
                  THEN [w |-> called.w, ret |-> Undefined]   \* caught, console.error
                  ELSE called

-----------------------------------------------------------------------------
(* Deferred execution: publisher.js:63-67 *)

\* deferExecution changed: fn runs at once, on the stack of the caller
deferExecutionNow(W, fn) == executeHandler(W, fn, fn.topic, fn.data, fn.options).w

\* deferExecution changed: fn is put before the pending units
deferExecutionFront(W, fn) == [W EXCEPT !.queue = << fn >> \o @]

\* fn is queued, and runs later, in the order of queueing
deferExecution(W, fn) == [W EXCEPT !.queue = Append(@, fn)]

-----------------------------------------------------------------------------
(* The replay pattern: publisher.js:190 and 195 *)

\* The source `${topic.replace('*', '(.+)')}` as regular expression atoms:
\* the first '*' of the topic is the group (.+), a later '*' is a quantifier
\* on the atom before it, any other character stands for itself.  A
\* quantifier on a quantified atom is a SyntaxError ("nothing to repeat").
RECURSIVE regexAtoms(_, _, _, _)
regexAtoms(topic, i, replaced, atoms) ==
    IF i > Len(topic)
    THEN atoms
    ELSE IF topic[i] = "*" /\ ~ replaced
    THEN regexAtoms(topic, i + 1, TRUE,
                    Append(atoms, [kind |-> "group", ch |-> "", star |-> FALSE]))
    ELSE IF topic[i] = "*"
    THEN IF atoms[Len(atoms)].star
         THEN << [kind |-> "error", ch |-> "", star |-> FALSE] >>
         ELSE regexAtoms(topic, i + 1, replaced,
                         [atoms EXCEPT ![Len(atoms)].star = TRUE])
    ELSE regexAtoms(topic, i + 1, replaced,
                    Append(atoms, [kind |-> "char", ch |-> topic[i], star |-> FALSE]))

regexIsError(atoms) == atoms # << >> /\ atoms[1].kind = "error"

\* Whether atoms[i..] followed by (/.+)?$ match key[j..]
RECURSIVE regexMatch(_, _, _, _)
regexMatch(atoms, i, key, j) ==
    IF i > Len(atoms)
    THEN \/ j = Len(key) + 1
         \/ j + 1 <= Len(key) /\ key[j] = "/"
    ELSE LET a == atoms[i] IN
         IF a.kind = "group"
         THEN \E k \in (IF a.star THEN j ELSE j + 1)..(Len(key) + 1) :
                  regexMatch(atoms, i + 1, key, k)
         ELSE IF a.star
         THEN \/ regexMatch(atoms, i + 1, key, j)
              \/ j <= Len(key) /\ key[j] = a.ch /\ regexMatch(atoms, i, key, j + 1)
         ELSE j <= Len(key) /\ key[j] = a.ch /\ regexMatch(atoms, i + 1, key, j + 1)

\* key.match(regex) for the regex of publisher.js:190
matchesTopic(topic, key) == regexMatch(regexAtoms(topic, 1, FALSE, << >>), 1, key, 1)

-----------------------------------------------------------------------------
(* publish: publisher.js:106-144 *)

\* storeMessage changed: every persistent publish adds an entry
storeMessageAppend(messages, topic, data, options) ==
    Append(messages, [key |-> topic, data |-> data, options |-> options])

\* persistentMessages.set(topic, {data, options})
storeMessage(messages, topic, data, options) ==
    IF \E i \in 1..Len(messages) : messages[i].key = topic
    THEN [i \in 1..Len(messages) |->
             IF messages[i].key = topic
             THEN [key |-> topic, data |-> data, options |-> options]
             ELSE messages[i]]
    ELSE Append(messages, [key |-> topic, data |-> data, options |-> options])

RECURSIVE dispatch(_, _, _, _, _, _)

\* dispatch changed: a handler cancels only if cancelable is true (the test
\* of the replay loop, publisher.js:203)
dispatchCancelableTrue(W, matchedSubscribers, topic, data, options, async) ==
    IF matchedSubscribers = << >>
    THEN [w |-> W, ret |-> Bool(TRUE)]
    ELSE LET subscriber == Head(matchedSubscribers) IN
         IF async
         THEN dispatch(deferExecution(W, [token |-> subscriber.token, topic |-> topic,
                                          data |-> data, options |-> options]),
                       Tail(matchedSubscribers), topic, data, options, async)
         ELSE LET r == executeHandler(W, subscriber, topic, data, options) IN
              IF IsThrow(r.ret)
              THEN r
              ELSE IF IsFalse(r.ret) /\ FieldIs(options, "cancelable", TRUE)
              THEN [w |-> r.w, ret |-> Bool(FALSE)]
              ELSE dispatch(r.w, Tail(matchedSubscribers), topic, data, options, async)

\* dispatch changed: any falsy result of a handler cancels (!result in
\* place of result === false)
dispatchFalsy(W, matchedSubscribers, topic, data, options, async) ==
    IF matchedSubscribers = << >>
    THEN [w |-> W, ret |-> Bool(TRUE)]
    ELSE LET subscriber == Head(matchedSubscribers) IN
         IF async
         THEN dispatch(deferExecution(W, [token |-> subscriber.token, topic |-> topic,
                                          data |-> data, options |-> options]),
                       Tail(matchedSubscribers), topic, data, options, async)
         ELSE LET r == executeHandler(W, subscriber, topic, data, options) IN
              IF IsThrow(r.ret)
              THEN r
              ELSE IF (IsFalse(r.ret) \/ isUndefined(r.ret))
                      /\ ~ FieldIs(options, "cancelable", FALSE)
              THEN [w |-> r.w, ret |-> Bool(FALSE)]
              ELSE dispatch(r.w, Tail(matchedSubscribers), topic, data, options, async)

\* The loop of publisher.js:132-140 over the sorted candidates
dispatch(W, matchedSubscribers, topic, data, options, async) ==
    IF matchedSubscribers = << >>
    THEN [w |-> W, ret |-> Bool(TRUE)]
    ELSE LET subscriber == Head(matchedSubscribers) IN
         IF async
         THEN dispatch(deferExecution(W, [token |-> subscriber.token, topic |-> topic,
                                          data |-> data, options |-> options]),
                       Tail(matchedSubscribers), topic, data, options, async)
         ELSE LET r == executeHandler(W, subscriber, topic, data, options) IN
              IF IsThrow(r.ret)
              THEN r
              ELSE IF IsFalse(r.ret) /\ ~ FieldIs(options, "cancelable", FALSE)
              THEN [w |-> r.w, ret |-> Bool(FALSE)]
              ELSE dispatch(r.w, Tail(matchedSubscribers), topic, data, options, async)

\* resolveAsync changed: the flag that findSubscribers stores with each
\* candidate (publisher.js:355) without the subscriber option, true when
\* the option or the global default is true
resolveAsyncEither(W, options) ==
    FieldIs(options, "async", TRUE) \/ W.globalOptions.async

\* publisher.js:130
resolveAsync(W, options) ==
    IF Has(options, "async") THEN options.async ELSE W.globalOptions.async

\* publish changed: the topic is tested for the wildcard before the
\* persistent message is stored
publishCheckFirst(W, topic, data, options) ==
    IF includesChar(topic, "*")
    THEN [w |-> W, ret |-> Throw("Publish topic cannot contain any wildcards.")]
    ELSE LET W1 == IF FieldIs(options, "persist", TRUE)
                   THEN [W EXCEPT !.persistentMessages = storeMessage(@, topic, data, options)]
                   ELSE W
             found == findSubscribers(split(topic), data, options, W1.subsTree, W1, << >>)
             matchedSubscribers == sort(found)
         IN  dispatch([W1 EXCEPT !.matched = matchedSubscribers],
                      matchedSubscribers, topic, data, options,
                      resolveAsync(W1, options))

\* publish changed: no test for the wildcard in the topic
publishAnyTopic(W, topic, data, options) ==
    LET W1 == IF FieldIs(options, "persist", TRUE)
              THEN [W EXCEPT !.persistentMessages = storeMessage(@, topic, data, options)]
              ELSE W
        found == findSubscribers(split(topic), data, options, W1.subsTree, W1, << >>)
        matchedSubscribers == sort(found)
    IN  dispatch([W1 EXCEPT !.matched = matchedSubscribers],
                 matchedSubscribers, topic, data, options,
                 resolveAsync(W1, options))

publish(W, topic, data, options) ==
    LET W1 == IF FieldIs(options, "persist", TRUE)
              THEN [W EXCEPT !.persistentMessages = storeMessage(@, topic, data, options)]
              ELSE W
    IN  IF includesChar(topic, "*")
        THEN [w |-> W1, ret |-> Throw("Publish topic cannot contain any wildcards.")]
        ELSE LET found == findSubscribers(split(topic), data, options, W1.subsTree, W1, << >>)
                 matchedSubscribers == sort(found)
             IN  dispatch([W1 EXCEPT !.matched = matchedSubscribers],
                          matchedSubscribers, topic, data, options,
                          resolveAsync(W1, options))

-----------------------------------------------------------------------------
(* subscribe: publisher.js:161-211 *)

\* The loop of publisher.js:193-207 over the stored messages, from the i-th on
RECURSIVE replay(_, _, _, _, _)

\* replay changed: the global default alone decides between the call inside
\* subscribe and the deferred call, not the async flag of the stored message
replayGlobalAsync(W, messages, i, subscriber, token) ==
    IF i > Len(messages)
    THEN [w |-> W, ret |-> Num(token)]
    ELSE LET persistentMessage == messages[i]
             key == persistentMessage.key
         IN  IF ~ matchesTopic(subscriber.topic, key)
             THEN replay(W, messages, i + 1, subscriber, token)
             ELSE IF W.globalOptions.async
             THEN replay(deferExecution(W, [token |-> token, topic |-> key,
                                            data |-> persistentMessage.data,
                                            options |-> subscriber.options]),
                         messages, i + 1, subscriber, token)
             ELSE LET r == executeHandler(W, subscriber, key, persistentMessage.data,
                                          subscriber.options)
                  IN  IF IsThrow(r.ret)
                      THEN r
                      ELSE IF IsFalse(r.ret) /\ FieldIs(subscriber.options, "cancelable", TRUE)
                      THEN [w |-> r.w, ret |-> Num(token)]
                      ELSE replay(r.w, messages, i + 1, subscriber, token)

replay(W, messages, i, subscriber, token) ==
    IF i > Len(messages)
    THEN [w |-> W, ret |-> Num(token)]
    ELSE LET persistentMessage == messages[i]
             key == persistentMessage.key
         IN  IF ~ matchesTopic(subscriber.topic, key)
             THEN replay(W, messages, i + 1, subscriber, token)
             ELSE IF resolveAsync(W, persistentMessage.options)
             THEN replay(deferExecution(W, [token |-> token, topic |-> key,
                                            data |-> persistentMessage.data,
                                            options |-> subscriber.options]),
                         messages, i + 1, subscriber, token)
             ELSE LET r == executeHandler(W, subscriber, key, persistentMessage.data,
                                          subscriber.options)
                  IN  IF IsThrow(r.ret)
                      THEN r
                      ELSE IF IsFalse(r.ret) /\ FieldIs(subscriber.options, "cancelable", TRUE)
                      THEN [w |-> r.w, ret |-> Num(token)]
                      ELSE replay(r.w, messages, i + 1, subscriber, token)

\* subscribe changed: the handler is tested after the subscriber was
\* added to registry and trie and the stored messages were replayed
subscribeLateCheck(W, topic, handler, optionsArg) ==
    LET token == W.tokenCounter + 1
        options == optionsArg.v
        W1 == [W EXCEPT !.tokenCounter = token]
    IN  IF isUndefined(topic)
        THEN [w |-> W1, ret |-> Throw("Subscribe failed - undefined Topic.")]
        ELSE IF includes(topic.v, << "u", "n", "d", "e", "f", "i", "n", "e", "d" >>)
        THEN [w |-> W1, ret |-> Throw("Subscribe failed - found 'undefined' in topic")]
        ELSE
        LET subscriber == [token |-> token, topic |-> topic.v,
                           handler |-> IF isUndefined(handler) THEN "h" ELSE handler.v,
                           options |-> options,
                           optionsRef |-> optionsArg.id]
            W2 == [W1 EXCEPT
                      !.objects = With(@, token, subscriber),
                      !.invoked = startCount(@, token, options),
                      !.subscrs = SeqSet(@, token),
                      !.subsTree = addSubscription(split(topic.v), subscriber, @)]
            r == IF ~ FieldIs(options, "persist", TRUE)
                 THEN [w |-> W2, ret |-> Num(token)]
                 ELSE IF regexIsError(regexAtoms(topic.v, 1, FALSE, << >>))
                 THEN [w |-> W2, ret |-> Throw("SyntaxError")]
                 ELSE replay(W2, W2.persistentMessages, 1, subscriber, token)
        IN  IF isUndefined(handler)
            THEN [w |-> r.w, ret |-> Throw("Subscribe failed - undefined Handler")]
            ELSE r

\* subscribe changed: the token is the smallest number that no registered
\* subscriber has, in place of the counter
subscribeReuseToken(W, topic, handler, optionsArg) ==
    LET token == CHOOSE n \in 0..Len(W.subscrs) :
                     /\ ~ SeqHas(W.subscrs, n)
                     /\ \A m \in 0..(n - 1) : SeqHas(W.subscrs, m)
        options == optionsArg.v
        W1 == [W EXCEPT !.tokenCounter = @ + 1]
    IN  IF isUndefined(topic)
        THEN [w |-> W1, ret |-> Throw("Subscribe failed - undefined Topic.")]
        ELSE IF includes(topic.v, << "u", "n", "d", "e", "f", "i", "n", "e", "d" >>)
        THEN [w |-> W1, ret |-> Throw("Subscribe failed - found 'undefined' in topic")]
        ELSE IF isUndefined(handler)
        THEN [w |-> W1, ret |-> Throw("Subscribe failed - undefined Handler")]
        ELSE
        LET subscriber == [token |-> token, topic |-> topic.v,
                           handler |-> handler.v, options |-> options,
                           optionsRef |-> optionsArg.id]
            W2 == [W1 EXCEPT
                      !.objects = With(@, token, subscriber),
                      !.invoked = startCount(@, token, options),
                      !.subscrs = SeqSet(@, token),
                      !.subsTree = addSubscription(split(topic.v), subscriber, @)]
        IN  IF ~ FieldIs(options, "persist", TRUE)
            THEN [w |-> W2, ret |-> Num(token)]
            ELSE IF regexIsError(regexAtoms(topic.v, 1, FALSE, << >>))
            THEN [w |-> W2, ret |-> Throw("SyntaxError")]
            ELSE replay(W2, W2.persistentMessages, 1, subscriber, token)

\* publisher.js:161-211: the entry, then the replay of the stored messages
\* for a subscriber with the option persist
subscribe(W, topic, handler, optionsArg) ==
    LET r == subscribeEntry(W, topic, handler, optionsArg)
        token == W.tokenCounter + 1
    IN  IF IsThrow(r.ret) \/ ~ FieldIs(optionsArg.v, "persist", TRUE)
        THEN r
        ELSE IF regexIsError(regexAtoms(topic.v, 1, FALSE, << >>))
        THEN [w |-> r.w, ret |-> Throw("SyntaxError")]
        ELSE replay(r.w, r.w.persistentMessages, 1, r.w.objects[token], token)

-----------------------------------------------------------------------------
(* removePersistentMessage and configure: publisher.js:283-287 and 85-91 *)

\* removePersistentMessage changed: the entries of the topics below are
\* removed as well (the pattern of the replay in place of the exact key)
removePersistentMessageBelow(W, topic) ==
    [w |-> [W EXCEPT !.persistentMessages =
                         SelectSeq(@, LAMBDA m : ~ matchesTopic(topic, m.key))],
     ret |-> Undefined]

removePersistentMessage(W, topic) ==
    [w |-> [W EXCEPT !.persistentMessages = SelectSeq(@, LAMBDA m : m.key # topic)],
     ret |-> Undefined]

\* options is the argument: an options object, or Undefined when the call
\* has no argument (the parameter then defaults to {})
configure(W, options) ==
    LET given == IF isUndefined(options) THEN EmptyObject ELSE options.v
        merged == [k \in DOMAIN W.globalOptions |->
                      IF Has(given, k) THEN given[k] ELSE W.globalOptions[k]]
    IN  [w |-> [W EXCEPT !.globalOptions = merged], ret |-> Undefined]

-----------------------------------------------------------------------------
(* A deferred unit runs: the closure bound at publisher.js:135 or 202 *)

\* runDeferred changed: an exception of the unit discards the units that
\* are pending after it
runDeferredAbort(W) ==
    LET fn == Head(W.queue)
        r == executeHandler([W EXCEPT !.queue = Tail(@)], fn, fn.topic, fn.data, fn.options)
    IN  IF IsThrow(r.ret) THEN [w |-> [r.w EXCEPT !.queue = << >>], ret |-> r.ret] ELSE r

\* runDeferred changed: the unit stays pending after it has run
runDeferredKeep(W) ==
    LET fn == Head(W.queue)
    IN  executeHandler(W, fn, fn.topic, fn.data, fn.options)

runDeferred(W) ==
    LET fn == Head(W.queue)
    IN  executeHandler([W EXCEPT !.queue = Tail(@)], fn, fn.topic, fn.data, fn.options)

-----------------------------------------------------------------------------
(* The state machine *)

\* The program state at the start of an operation
World ==
    [globalOptions |-> globalOptions,
     tokenCounter |-> tokenCounter,
     objects |-> objects,
     subscrs |-> subscrs,
     subsTree |-> subsTree,
     persistentMessages |-> persistentMessages,
     queue |-> queue,
     invoked |-> invoked,
     calls |-> << >>,
     matched |-> << >>]

\* The operation op, called with args, ended as r says
Commit(r, op, args) ==
    /\ Len(r.w.queue) <= MaxQueue
    /\ globalOptions' = r.w.globalOptions
    /\ tokenCounter' = r.w.tokenCounter
    /\ objects' = r.w.objects
    /\ subscrs' = r.w.subscrs
    /\ subsTree' = r.w.subsTree
    /\ persistentMessages' = r.w.persistentMessages
    /\ queue' = r.w.queue
    /\ invoked' = r.w.invoked
    /\ calls' = r.w.calls
    /\ lastOp' = [op |-> op, args |-> args, ret |-> r.ret, matched |-> r.w.matched]

Init ==
    /\ globalOptions = [async |-> TRUE, handleExceptions |-> FALSE,
                        lenientUnsubscribe |-> FALSE]
    /\ tokenCounter = -1
    /\ objects = EmptyObject
    /\ subscrs = << >>
    /\ subsTree = EmptyObject
    /\ persistentMessages = << >>
    /\ queue = << >>
    /\ invoked = EmptyObject
    /\ calls = << >>
    /\ lastOp = [op |-> "init", args |-> EmptyObject, ret |-> Undefined, matched |-> << >>]

Configure(optionses) ==
    \E options \in optionses :
        Commit(configure(World, options), "configure", [options |-> options])

\* The caller passes a new options object, or once more the object it
\* passed when it subscribed one of `sharers`
Subscribe(limit, topics, handlers, optionses, sharers) ==
    /\ tokenCounter + 1 < limit
    /\ \E topic \in topics, handler \in handlers,
          options \in { Obj(tokenCounter + 1, o) : o \in optionses }
                      \cup { Obj(objects[k].optionsRef, objects[k].options) :
                                 k \in sharers \cap DOMAIN objects } :
        Commit(subscribe(World, topic, handler, options), "subscribe",
               [topic |-> topic, handler |-> handler, options |-> options])

Publish(topics, datas, optionses) ==
    \E topic \in topics, data \in datas, options \in optionses :
        Commit(publish(World, topic, data, options), "publish",
               [topic |-> topic, data |-> data, options |-> options])

Unsubscribe(topicOrTokens, handlers, lenients) ==
    \E topicOrToken \in topicOrTokens, handler \in handlers, lenient \in lenients :
        Commit(unsubscribe(World, topicOrToken, handler, lenient), "unsubscribe",
               [topicOrToken |-> topicOrToken, handler |-> handler,
                lenientUnsubscribe |-> lenient])

RemovePersistentMessage(topics) ==
    \E topic \in topics :
        Commit(removePersistentMessage(World, topic), "removePersistentMessage",
               [topic |-> topic])

RunDeferred ==
    /\ queue # << >>
    /\ Commit(runDeferred(World), "deferred", Head(queue))

-----------------------------------------------------------------------------
(* Inputs *)

\* topic strings, written by their segments
T1(a) == << a >>
T2(a, b) == << a, "/", b >>
T3(a, b, c) == << a, "/", b, "/", c >>

Tokens(limit) == { Num(n) : n \in 0..(limit - 1) }

-----------------------------------------------------------------------------
(* SpecMatch: matching.  Subscriptions on plain and wildcard topics, with  *)
(* and without a condition; synchronous publishes on topics of one to      *)
(* three segments.                                                         *)

MatchSubscribeTopics ==
    { Str(T1("a")), Str(T2("a", "b")), Str(T1("*")), Str(T2("a", "*")) }

MatchPublishTopics ==
    { T1("a"), T1("b"), T2("a", "b"), T3("a", "b", "c") }

NextMatch ==
    \/ Subscribe(MatchTokens, MatchSubscribeTopics, { Fn("h") },
                 { EmptyObject, [condition |-> "c_d1"] }, {})
    \/ Publish(MatchPublishTopics, { "d0", "d1" }, { [async |-> FALSE] })
    \/ Unsubscribe(Tokens(MatchTokens), { Undefined }, { Undefined })

SpecMatch == Init /\ [][NextMatch]_vars

-----------------------------------------------------------------------------
(* SpecOrder: the order of dispatch.  Subscriptions with priorities 1, -1  *)
(* and none, at a node, its ancestor and under wildcards; synchronous      *)
(* publishes.                                                              *)

OrderSubscribeTopics ==
    { Str(T1("a")), Str(T2("a", "b")), Str(T1("*")), Str(T2("a", "*")),
      Str(T2("*", "b")) }

NextOrder ==
    \/ Subscribe(OrderTokens, OrderSubscribeTopics, { Fn("h") },
                 { EmptyObject, [priority |-> 1], [priority |-> -1] }, {})
    \/ Publish({ T2("a", "b"), T1("a") }, { "d0" }, { [async |-> FALSE] })

SpecOrder == Init /\ [][NextOrder]_vars

-----------------------------------------------------------------------------
(* SpecCancel: cancellation and the result of publish.  Handlers that      *)
(* return undefined, return false or throw for the payload d1, on one      *)
(* topic; synchronous publishes with cancelable unset, true and false, and *)
(* asynchronous publishes whose units run later.                           *)

NextCancel ==
    \/ Subscribe(CancelTokens, { Str(T1("a")) },
                 { Fn("h"), Fn("h_false_on_d1"), Fn("h_throw_on_d1") },
                 { EmptyObject }, {})
    \/ Publish({ T1("a") }, { "d0", "d1" },
               { [async |-> FALSE],
                 [async |-> FALSE, cancelable |-> FALSE],
                 [async |-> FALSE, cancelable |-> TRUE] })
    \/ Publish({ T1("a") }, { "d1" }, { EmptyObject })
    \/ RunDeferred

SpecCancel == Init /\ [][NextCancel]_vars

-----------------------------------------------------------------------------
(* SpecAsync: deferred delivery.  Subscribers with and without an          *)
(* invocation budget; publishes that are synchronous or not by their       *)
(* option or by the global default; unsubscription while units are         *)
(* pending.                                                                *)

NextAsync ==
    \/ Configure({ [t |-> "object", v |-> [async |-> FALSE]] })
    \/ Subscribe(AsyncTokens, { Str(T1("a")) }, { Fn("h") },
                 { EmptyObject, [invocations |-> 2] }, {})
    \/ Publish({ T1("a") }, { "d0" },
               { EmptyObject, [async |-> FALSE], [async |-> TRUE] })
    \/ Unsubscribe(Tokens(AsyncTokens), { Undefined }, { Bool(TRUE) })
    \/ RunDeferred

SpecAsync == Init /\ [][NextAsync]_vars

-----------------------------------------------------------------------------
(* SpecBudget: invocation budgets.  Subscribers with a budget of one or    *)
(* two invocations, with or without replay, created with an options object *)
(* of their own or with the object of an earlier subscribe call;           *)
(* synchronous and asynchronous publishes, persistent or not.              *)

NextBudget ==
    \/ Subscribe(BudgetTokens, { Str(T1("a")) }, { Fn("h") },
                 { [invocations |-> 1], [invocations |-> 2],
                   [invocations |-> 1, persist |-> TRUE] },
                 0..(BudgetTokens - 1))
    \/ Publish({ T1("a") }, { "d0" },
               { EmptyObject, [async |-> FALSE], [async |-> FALSE, persist |-> TRUE] })
    \/ Publish({ T2("a", "b") }, { "d0" },
               { [async |-> FALSE, persist |-> TRUE], [persist |-> TRUE] })
    \/ RunDeferred

SpecBudget == Init /\ [][NextBudget]_vars

-----------------------------------------------------------------------------
(* SpecCond: conditions.  Subscribers without condition and with          *)
(* conditions that return true for one payload only, or a truthy value     *)
(* that is not true; synchronous and asynchronous publishes.               *)

NextCond ==
    \/ Subscribe(CondTokens, { Str(T1("a")), Str(T2("a", "*")) }, { Fn("h") },
                 { EmptyObject, [condition |-> "c_d1"], [condition |-> "c_truthy"],
                   [condition |-> "c_d1", topicArg |-> TRUE] }, {})
    \/ Publish({ T1("a"), T2("a", "b") }, { "d0", "d1" }, { [async |-> FALSE] })
    \/ Publish({ T1("a") }, { "d0", "d1" }, { EmptyObject })
    \/ RunDeferred

SpecCond == Init /\ [][NextCond]_vars

-----------------------------------------------------------------------------
(* SpecPersist: the persistent store.  Publishes with and without persist, *)
(* synchronous by their option or by the global default; subscribers with  *)
(* and without persist on the published topics and above them;            *)
(* removal of stored messages.                                             *)

NextPersist ==
    \/ Configure({ [t |-> "object", v |-> [async |-> FALSE]] })
    \/ Subscribe(PersistTokens,
                 { Str(T1("a")), Str(T2("a", "b")) },
                 { Fn("h_false_on_d1") },
                 { EmptyObject, [persist |-> TRUE] }, {})
    \/ Publish({ T1("a"), T2("a", "b") }, { "d0", "d1" },
               { [persist |-> TRUE, async |-> FALSE], [async |-> FALSE] })
    \/ Publish({ T2("a", "b") }, { "d0" }, { [persist |-> TRUE] })
    \/ RemovePersistentMessage({ T1("a"), T2("a", "b") })
    \/ RunDeferred

SpecPersist == Init /\ [][NextPersist]_vars

-----------------------------------------------------------------------------
(* SpecReplay: the topics of replay.  Messages stored under topics of one  *)
(* to three segments; subscribers with persist on plain topics and on      *)
(* topics with one or two wildcards, at the start, the end and alone.      *)

ReplaySubscribeTopics ==
    { Str(T1("a")), Str(T1("*")), Str(T2("a", "*")), Str(T2("*", "b")),
      Str(T2("*", "*")) }

ReplayPublishTopics == { T1("a"), T2("a", "b"), T3("x", "y", "b") }

NextReplay ==
    \/ Subscribe(ReplayTokens, ReplaySubscribeTopics, { Fn("h") },
                 { [persist |-> TRUE] }, {})
    \/ Publish(ReplayPublishTopics, { "d0" },
               { [persist |-> TRUE, async |-> FALSE], [async |-> FALSE] })

SpecReplay == Init /\ [][NextReplay]_vars

-----------------------------------------------------------------------------
(* SpecReplayOptions: the options of replay.  Messages stored with         *)
(* cancelable unset and false; subscribers with persist whose handler      *)
(* returns false for one payload, with cancelable unset or true, or with a *)
(* condition.                                                              *)

NextReplayOptions ==
    \/ Subscribe(ReplayTokens, { Str(T1("a")) }, { Fn("h_false_on_d1") },
                 { [persist |-> TRUE], [persist |-> TRUE, cancelable |-> TRUE],
                   [persist |-> TRUE, condition |-> "c_d1"] }, {})
    \/ Publish({ T1("a"), T2("a", "b") }, { "d0", "d1" },
               { [persist |-> TRUE, async |-> FALSE],
                 [persist |-> TRUE, async |-> FALSE, cancelable |-> FALSE] })

SpecReplayOptions == Init /\ [][NextReplayOptions]_vars

-----------------------------------------------------------------------------
(* SpecUnsub: unsubscription by token.  Up to three subscribers with the   *)
(* same handler on a topic, the topic below it and the wildcard;           *)
(* synchronous and asynchronous publishes; unsubscription by token while   *)
(* units are pending.                                                      *)

NextUnsub ==
    \/ Subscribe(UnsubTokens, { Str(T1("a")), Str(T2("a", "b")), Str(T1("*")) },
                 { Fn("h") }, { EmptyObject }, {})
    \/ Publish({ T2("a", "b") }, { "d0" }, { EmptyObject, [async |-> FALSE] })
    \/ Unsubscribe(Tokens(UnsubTokens), { Undefined }, { Undefined })
    \/ RunDeferred

SpecUnsub == Init /\ [][NextUnsub]_vars

-----------------------------------------------------------------------------
(* SpecLenient: lenient and strict unsubscription.  The global default set *)
(* to true and to false; unsubscribe by token, by an array of tokens, by   *)
(* topic and without argument, of registered and unregistered tokens, with *)
(* the lenient flag unset, true and false as second or as third argument.  *)

LenientFlags == { Undefined, Bool(TRUE), Bool(FALSE) }

NextLenient ==
    \/ Configure({ [t |-> "object", v |-> [lenientUnsubscribe |-> TRUE]],
                   [t |-> "object", v |-> [lenientUnsubscribe |-> FALSE]] })
    \/ Subscribe(LenientTokens, { Str(T1("a")) }, { Fn("h") }, { EmptyObject }, {})
    \/ Publish({ T1("a") }, { "d0" }, { [persist |-> TRUE, async |-> FALSE] })
    \/ Unsubscribe(Tokens(LenientTokens + 1) \cup { Arr(<< Num(0), Num(1) >>), Undefined },
                   LenientFlags, LenientFlags)
    \/ Unsubscribe({ Str(T1("a")) }, { Undefined, Fn("h") }, LenientFlags)

SpecLenient == Init /\ [][NextLenient]_vars

-----------------------------------------------------------------------------
(* SpecTopicUnsub: unsubscription by topic and handler.  Up to three       *)
(* subscribers with one of two handlers on a topic or the topic below it,  *)
(* so that duplicates of topic and handler occur; unsubscription by topic  *)
(* and handler of registered and of unregistered pairs, lenient and        *)
(* strict, under either global default; synchronous publishes.             *)

TopicHandlers == { Fn("h"), Fn("h_true") }

NextTopicUnsub ==
    \/ Configure({ [t |-> "object", v |-> [lenientUnsubscribe |-> TRUE]],
                   [t |-> "object", v |-> [lenientUnsubscribe |-> FALSE]] })
    \/ Subscribe(TopicTokens, { Str(T1("a")), Str(T2("a", "b")) }, TopicHandlers,
                 { EmptyObject }, {})
    \/ Publish({ T2("a", "b") }, { "d0" }, { [async |-> FALSE] })
    \/ Unsubscribe({ Str(T1("a")), Str(T2("a", "b")), Str(T1("b")) }, TopicHandlers,
                   { Undefined, Bool(TRUE) })

SpecTopicUnsub == Init /\ [][NextTopicUnsub]_vars

-----------------------------------------------------------------------------
(* SpecErrors: calls that are rejected.  configure without argument;       *)
(* subscribe without topic, without handler and with `undefined` in the    *)
(* topic, with and without the persist option; publish on topics with a    *)
(* wildcard, persistent or not, deferred or not, while subscribers on      *)
(* these very topics are registered.                                       *)

UndefinedTopic == << "a", "/", "u", "n", "d", "e", "f", "i", "n", "e", "d" >>

NextErrors ==
    \/ Configure({ Undefined, [t |-> "object", v |-> [async |-> FALSE]] })
    \/ Subscribe(ErrorTokens,
                 { Undefined, Str(T1("a")), Str(T1("*")), Str(UndefinedTopic) },
                 { Undefined, Fn("h") }, { EmptyObject, [persist |-> TRUE] }, {})
    \/ Publish({ T1("a"), T1("*"), T2("a", "*") }, { "d0" }, { EmptyObject })
    \/ Publish({ T1("a"), T1("*") }, { "d0" }, { [persist |-> TRUE] })
    \/ RunDeferred

SpecErrors == Init /\ [][NextErrors]_vars

-----------------------------------------------------------------------------
(* SpecPrune: the registry and the trie under every way of removal.  Up to *)
(* three subscribe calls, some without handler, on a topic, a topic two    *)
(* levels below it and a wildcard, with and without an invocation budget   *)
(* of one; unsubscription by token, by an array of tokens and by topic and *)
(* handler; synchronous publishes that use up the budgets.                 *)

PruneTopics == { T1("a"), T3("a", "b", "c"), T2("a", "*") }

NextPrune ==
    \/ Subscribe(PruneTokens, { Str(t) : t \in PruneTopics }, { Undefined, Fn("h") },
                 { EmptyObject, [invocations |-> 1] }, {})
    \/ Publish({ T3("a", "b", "c") }, { "d0" }, { [async |-> FALSE] })
    \/ Unsubscribe(Tokens(PruneTokens) \cup { Arr(<< Num(0), Num(1) >>) },
                   { Undefined }, { Bool(TRUE) })
    \/ Unsubscribe({ Str(T1("a")), Str(T3("a", "b", "c")) }, { Fn("h") }, { Undefined })

SpecPrune == Init /\ [][NextPrune]_vars

-----------------------------------------------------------------------------
(* SpecExcept: exceptions of handlers.  Up to three subscribers on one     *)
(* topic whose handlers return nothing, return false or throw; the global  *)
(* handleExceptions set to true and to false; synchronous publishes with   *)
(* the option handleExceptions unset, true and false.                      *)

NextExcept ==
    \/ Configure({ [t |-> "object", v |-> [handleExceptions |-> TRUE]],
                   [t |-> "object", v |-> [handleExceptions |-> FALSE]] })
    \/ Subscribe(ExceptTokens, { Str(T1("a")) },
                 { Fn("h"), Fn("h_false"), Fn("h_throw") }, { EmptyObject }, {})
    \/ Publish({ T1("a") }, { "d0" },
               { [async |-> FALSE],
                 [async |-> FALSE, handleExceptions |-> TRUE],
                 [async |-> FALSE, handleExceptions |-> FALSE] })

SpecExcept == Init /\ [][NextExcept]_vars

-----------------------------------------------------------------------------
(* SpecIsolate: exceptions of handlers in deferred units.  Up to two       *)
(* subscribers on one topic whose handlers return nothing or throw; the    *)
(* global handleExceptions set to true and to false; asynchronous          *)
(* publishes with the option handleExceptions unset and false.             *)

NextIsolate ==
    \/ Configure({ [t |-> "object", v |-> [handleExceptions |-> TRUE]],
                   [t |-> "object", v |-> [handleExceptions |-> FALSE]] })
    \/ Subscribe(IsolateTokens, { Str(T1("a")) }, { Fn("h"), Fn("h_throw") },
                 { EmptyObject }, {})
    \/ Publish({ T1("a") }, { "d0" }, { EmptyObject, [handleExceptions |-> FALSE] })
    \/ RunDeferred

SpecIsolate == Init /\ [][NextIsolate]_vars

-----------------------------------------------------------------------------
(* SpecUniform: the choice between synchronous and deferred delivery.  Up  *)
(* to two subscribers on one topic with the subscriber option async unset, *)
(* true and false; the global async set to true and to false; publishes    *)
(* with the option async unset, true and false.                            *)

NextUniform ==
    \/ Configure({ [t |-> "object", v |-> [async |-> TRUE]],
                   [t |-> "object", v |-> [async |-> FALSE]] })
    \/ Subscribe(UniformTokens, { Str(T1("a")) }, { Fn("h") },
                 { EmptyObject, [async |-> TRUE], [async |-> FALSE] }, {})
    \/ Publish({ T1("a") }, { "d0" },
               { EmptyObject, [async |-> TRUE], [async |-> FALSE] })
    \/ RunDeferred

SpecUniform == Init /\ [][NextUniform]_vars

-----------------------------------------------------------------------------
(* SpecExact: the set of candidates.  Up to two subscribers, with and      *)
(* without a condition, on topics with the wildcard as first, middle and   *)
(* only segment and on literal topics of two and three segments;           *)
(* synchronous publishes of two payloads on topics of one to three         *)
(* segments.                                                               *)

ExactSubscribeTopics ==
    { T3("a", "*", "c"), T2("a", "b"), T2("*", "b"), T3("a", "b", "c"), T1("*") }

ExactPublishTopics == { T3("a", "b", "c"), T3("a", "x", "c"), T2("a", "b"), T1("b") }

NextExact ==
    \/ Subscribe(ExactTokens, { Str(t) : t \in ExactSubscribeTopics }, { Fn("h") },
                 { EmptyObject, [condition |-> "c_d1"] }, {})
    \/ Publish(ExactPublishTopics, { "d0", "d1" }, { [async |-> FALSE] })

SpecExact == Init /\ [][NextExact]_vars

-----------------------------------------------------------------------------
(* SpecFifo: the order of deferred delivery.  Up to two subscribers with   *)
(* priority 1 or none on a topic, the topic below it and the wildcard;     *)
(* asynchronous publishes of two payloads; the pending units run first in, *)
(* first out.                                                              *)

NextFifo ==
    \/ Subscribe(FifoTokens, { Str(T1("a")), Str(T2("a", "b")), Str(T1("*")) },
                 { Fn("h") }, { EmptyObject, [priority |-> 1] }, {})
    \/ Publish({ T2("a", "b") }, { "d0", "d1" }, { EmptyObject })
    \/ RunDeferred

SpecFifo == Init /\ [][NextFifo]_vars

-----------------------------------------------------------------------------
(* SpecWildPersist: persistent publishes on topics with a wildcard.  Up to *)
(* two subscribers on a topic and on wildcard topics; synchronous          *)
(* persistent and plain publishes of two payloads on a/* and on a;         *)
(* removal of the stored messages.                                         *)

WildPublishTopics == { T2("a", "*"), T1("a") }

NextWildPersist ==
    \/ Subscribe(WildTokens, { Str(T1("a")), Str(T2("a", "*")), Str(T1("*")) },
                 { Fn("h") }, { EmptyObject }, {})
    \/ Publish(WildPublishTopics, { "d0", "d1" },
               { [persist |-> TRUE, async |-> FALSE], [async |-> FALSE] })
    \/ RemovePersistentMessage(WildPublishTopics)

SpecWildPersist == Init /\ [][NextWildPersist]_vars

-----------------------------------------------------------------------------
(* SpecArray: unsubscription by an array of tokens.  Up to three           *)
(* subscribers on a topic and the topic below it; arrays of registered     *)
(* tokens, with a token that was never issued in the middle, and with a    *)
(* token twice; lenient and strict calls; synchronous publishes.           *)

ArrayArguments ==
    { Arr(<< Num(0), Num(1) >>), Arr(<< Num(1), Num(9), Num(0) >>),
      Arr(<< Num(2), Num(0), Num(2), Num(1) >>) }

NextArray ==
    \/ Subscribe(ArrayTokens, { Str(T1("a")), Str(T2("a", "b")) }, { Fn("h") },
                 { EmptyObject }, {})
    \/ Publish({ T2("a", "b") }, { "d0" }, { [async |-> FALSE] })
    \/ Unsubscribe(ArrayArguments, { Undefined, Bool(TRUE) }, { Undefined })

SpecArray == Init /\ [][NextArray]_vars

-----------------------------------------------------------------------------
(* SpecSnapshot: handlers that change the registry.  Up to three           *)
(* subscribe calls on one topic, by the caller or by the handler           *)
(* h_subscribe; the handler h_unsubscribe_1 unsubscribes token 1;          *)
(* synchronous and asynchronous publishes.                                 *)

NextSnapshot ==
    \/ Subscribe(SnapTokens, { Str(T1("a")) },
                 { Fn("h"), Fn("h_unsubscribe_1"), Fn("h_subscribe") }, { EmptyObject }, {})
    \/ Publish({ T1("a") }, { "d0" }, { EmptyObject, [async |-> FALSE] })
    \/ RunDeferred

SpecSnapshot == Init /\ [][NextSnapshot]_vars

-----------------------------------------------------------------------------
(* SpecDrain: the run of the deferred units under fairness.  Up to two     *)
(* subscribers on a topic, with and without replay of stored messages; one *)
(* asynchronous persistent publish on each of two topics, so that the      *)
(* publishes end; lenient unsubscription by token while units are pending. *)
(* The deferral facility runs a pending unit eventually: weak fairness of  *)
(* RunDeferred.                                                            *)

\* a publish on a topic for which no message is stored
PublishOnce(topics, datas, optionses) ==
    \E topic \in topics :
        /\ \A i \in 1..Len(persistentMessages) : persistentMessages[i].key # topic
        /\ Publish({ topic }, datas, optionses)

NextDrain ==
    \/ Subscribe(DrainTokens, { Str(T1("a")) }, { Fn("h") },
                 { EmptyObject, [persist |-> TRUE] }, {})
    \/ PublishOnce({ T1("a"), T2("a", "b") }, { "d0" }, { [persist |-> TRUE] })
    \/ Unsubscribe(Tokens(DrainTokens), { Undefined }, { Bool(TRUE) })
    \/ RunDeferred

SpecDrain == Init /\ [][NextDrain]_vars /\ WF_vars(RunDeferred)

-----
(* Vocabulary of the properties *)

\* topic P is topic T or lies below it: P = T, or P = T/<further segments>
IsBelowOrSame(P, T) ==
    \/ P = T
    \/ Len(P) > Len(T) + 1 /\ SubSeq(P, 1, Len(T) + 1) = T \o << "/" >>

IsBelow(P, T) == IsBelowOrSame(P, T) /\ P # T

\* the condition of subscriber s, if it has one, returns true for the payload
ConditionHolds(s, data) ==
    Has(s.options, "condition") => ConditionResult(s.options.condition, data) = Bool(TRUE)

IsCandidate(matched, token) == \E i \in 1..Len(matched) : matched[i].token = token

\* the handler of the subscriber was invoked with that topic and payload
InvokedWith(cs, token, topic, data) ==
    \E i \in 1..Len(cs) : cs[i].token = token /\ cs[i].topic = topic /\ cs[i].data = data

WasInvoked(cs, token) == \E i \in 1..Len(cs) : cs[i].token = token

\* op is a publish that was accepted (its topic holds no wildcard)
IsPublish(op) == op.op = "publish" /\ ~ includesChar(op.args.topic, "*")

\* op is a publish that asked for synchronous delivery and returned true
CompletedSync(op) ==
    /\ IsPublish(op)
    /\ FieldIs(op.args.options, "async", FALSE)
    /\ op.ret = Bool(TRUE)

\* In the step to lastOp', a publish: subscriber s is a candidate, and its
\* handler runs with the published topic and payload if the synchronous
\* dispatch runs to its end
DeliveredTo(s) ==
    /\ IsCandidate(lastOp'.matched, s.token)
    /\ CompletedSync(lastOp') =>
           InvokedWith(calls', s.token, lastOp'.args.topic, lastOp'.args.data)

Registered == { objects[subscrs[k]] : k \in 1..Len(subscrs) }

-----------------------------------------------------------------------------
(* Properties of matching (SpecMatch) *)

\* C1: a registered subscriber on a topic T without wildcard, whose
\* condition (if any) passes, is delivered every publish on T and on any
\* topic T/<further segments>.
C1_DescendantInclusive ==
    [][IsPublish(lastOp') =>
          \A s \in Registered :
              ( /\ ~ includesChar(s.topic, "*")
                /\ IsBelowOrSame(lastOp'.args.topic, s.topic)
                /\ ConditionHolds(s, lastOp'.args.data) )
              => DeliveredTo(s)]_vars

\* a publish on a/b/c has invoked the handler of a subscriber on a
C1_Witness ==
    /\ CompletedSync(lastOp)
    /\ lastOp.args.topic = T3("a", "b", "c")
    /\ \E i \in 1..Len(calls) : objects[calls[i].token].topic = T1("a")

\* C2: a registered subscriber on `*`, whose condition (if any) passes, is
\* delivered every accepted publish, whatever the number of segments.
C2_WildcardAll ==
    [][IsPublish(lastOp') =>
          \A s \in Registered :
              (s.topic = T1("*") /\ ConditionHolds(s, lastOp'.args.data))
              => DeliveredTo(s)]_vars

\* a publish on a/b/c has invoked the handler of a subscriber on *
C2_Witness ==
    /\ CompletedSync(lastOp)
    /\ lastOp.args.topic = T3("a", "b", "c")
    /\ \E i \in 1..Len(calls) : objects[calls[i].token].topic = T1("*")

\* C3: a registered subscriber on X/* (X without wildcard) is delivered the
\* publishes on topics strictly below X, and is neither a candidate of nor
\* invoked by a publish on X itself.
C3_WildcardBelowOnly ==
    [][IsPublish(lastOp') =>
          \A s \in Registered :
              \A n \in 1..Len(s.topic) :
                  LET X == SubSeq(s.topic, 1, n) IN
                  (s.topic = X \o << "/", "*" >> /\ ~ includesChar(X, "*"))
                  => /\ ( IsBelow(lastOp'.args.topic, X)
                          /\ ConditionHolds(s, lastOp'.args.data) )
                        => DeliveredTo(s)
                     /\ lastOp'.args.topic = X
                        => /\ ~ IsCandidate(lastOp'.matched, s.token)
                           /\ ~ WasInvoked(calls', s.token)]_vars

\* a publish on a/b has invoked the handler of a subscriber on a/*
C3_Witness ==
    /\ CompletedSync(lastOp)
    /\ lastOp.args.topic = T2("a", "b")
    /\ \E i \in 1..Len(calls) : objects[calls[i].token].topic = T2("a", "*")

\* a publish on a, with a subscriber on a/* registered, has invoked nobody
C3_WitnessSelf ==
    /\ CompletedSync(lastOp)
    /\ lastOp.args.topic = T1("a")
    /\ calls = << >>
    /\ \E s \in Registered : s.topic = T2("a", "*")

-----------------------------------------------------------------------------
(* Properties of the order of dispatch (SpecOrder) *)

\* the priority a subscriber asked for, 0 if none
PriorityOf(token) ==
    IF Has(objects[token].options, "priority") THEN objects[token].options.priority ELSE 0

\* the place of a subscriber's invocation among the calls, 0 if none
CallIndex(cs, token) ==
    IF WasInvoked(cs, token) THEN CHOOSE i \in 1..Len(cs) : cs[i].token = token ELSE 0

MatchedTokens(op) == { op.matched[i].token : i \in 1..Len(op.matched) }

\* C4: in a synchronous publish, of two matched subscribers with different
\* priorities (none counts as 0) the one with the higher priority is
\* invoked first, whatever the order of subscription.
C4_PriorityOrder ==
    (IsPublish(lastOp) /\ FieldIs(lastOp.args.options, "async", FALSE)) =>
        /\ \A x, y \in MatchedTokens(lastOp) :
               (PriorityOf(x) > PriorityOf(y) /\ WasInvoked(calls, y))
               => /\ WasInvoked(calls, x)
                  /\ CallIndex(calls, x) < CallIndex(calls, y)
        /\ \A i, j \in 1..Len(calls) :
               i < j => PriorityOf(calls[i].token) >= PriorityOf(calls[j].token)

\* a later subscriber of priority 1 was invoked before an earlier one of
\* priority -1, and one without priority between them
C4_Witness ==
    /\ CompletedSync(lastOp)
    /\ Len(calls) = 3
    /\ PriorityOf(calls[1].token) = 1
    /\ ~ Has(objects[calls[2].token].options, "priority")
    /\ PriorityOf(calls[3].token) = -1
    /\ calls[1].token > calls[3].token

\* the first n segments of both topics are the same
SamePrefix(p, q, n) == \A k \in 1..n : p[k] = q[k]

\* The order of discovery of two matched subscribers, by the segments of
\* their topics: a node before the nodes below it, the `*` child of a node
\* before its literal child, and at one node the earlier subscriber first.
DiscoveredBefore(x, y) ==
    LET p == split(objects[x].topic)
        q == split(objects[y].topic)
    IN  \/ p = q /\ x < y
        \/ Len(p) < Len(q) /\ SamePrefix(p, q, Len(p))
        \/ \E k \in 1..Len(p) :
               /\ k <= Len(q)
               /\ SamePrefix(p, q, k - 1)
               /\ p[k] = << "*" >>
               /\ q[k] # << "*" >>

\* C5: subscribers of equal priority are invoked in the order of discovery
\* of that publish, also where it is not the order of subscription.
C5_TieBreakDiscovery ==
    (IsPublish(lastOp) /\ FieldIs(lastOp.args.options, "async", FALSE)) =>
        \A i, j \in 1..Len(calls) :
            (i < j /\ PriorityOf(calls[i].token) = PriorityOf(calls[j].token))
            => DiscoveredBefore(calls[i].token, calls[j].token)

\* three subscribers of equal priority were invoked in an order that is
\* the reverse of their subscription: */b, then a, then a/b
C5_Witness ==
    /\ CompletedSync(lastOp)
    /\ Len(calls) = 3
    /\ calls[1].token > calls[2].token
    /\ calls[2].token > calls[3].token
    /\ PriorityOf(calls[1].token) = PriorityOf(calls[3].token)
    /\ PriorityOf(calls[2].token) = PriorityOf(calls[3].token)

-----------------------------------------------------------------------------
(* Properties of cancellation and of the result of publish (SpecCancel) *)

\* the delivery of publish op is asynchronous: its option, else the global one
IsAsync(op) ==
    IF Has(op.args.options, "async") THEN op.args.options.async ELSE globalOptions.async

SomeCallReturnedFalse(cs) == \E i \in 1..Len(cs) : cs[i].ret = Bool(FALSE)

C7_WitnessAsync ==
    /\ lastOp.op = "deferred"
    /\ Len(calls) = 1
    /\ calls[1].ret = Bool(FALSE)

-----------------------------------------------------------------------------
(* Properties of deferred delivery (SpecAsync) *)

\* the units an asynchronous publish schedules: one per candidate, in the
\* order of dispatch, each with the topic, payload and options of the publish
UnitsOf(op) ==
    [i \in 1..Len(op.matched) |->
        [token |-> op.matched[i].token, topic |-> op.args.topic,
         data |-> op.args.data, options |-> op.args.options]]

\* C8: a publish whose resolved async flag is true invokes no handler
\* before it returns and only schedules one unit per candidate; a
\* synchronous publish schedules nothing and has invoked its candidates
\* when it returns.
C8_AsyncOffStack ==
    [][IsPublish(lastOp') =>
          IF IsAsync(lastOp')
          THEN /\ calls' = << >>
               /\ queue' = queue \o UnitsOf(lastOp')
               /\ lastOp'.ret = Bool(TRUE)
          ELSE /\ queue' = queue
               /\ lastOp'.ret = Bool(TRUE) =>
                      \A i \in 1..Len(lastOp'.matched) :
                          InvokedWith(calls', lastOp'.matched[i].token,
                                      lastOp'.args.topic, lastOp'.args.data)]_vars

\* a publish without async option, under the initial global default, has
\* returned with its two candidates scheduled and none invoked
C8_Witness ==
    /\ IsPublish(lastOp)
    /\ lastOp.args.options = EmptyObject
    /\ globalOptions.async
    /\ Len(lastOp.matched) = 2
    /\ calls = << >>
    /\ Len(queue) = 2

\* a publish without async option, under the global default false, has
\* invoked its two candidates and scheduled nothing
C8_WitnessSync ==
    /\ IsPublish(lastOp)
    /\ lastOp.args.options = EmptyObject
    /\ ~ globalOptions.async
    /\ Len(calls) = 2
    /\ queue = << >>

\* C9: a deferred unit whose subscriber is no longer registered when it
\* runs invokes no handler and changes nothing but the queue it leaves.
C9_SkippedDelivery ==
    [][(lastOp'.op = "deferred" /\ queue # << >> /\ ~ SeqHas(subscrs, Head(queue).token)) =>
          /\ calls' = << >>
          /\ lastOp'.ret = Undefined
          /\ queue' = Tail(queue)
          /\ objects' = objects
          /\ subscrs' = subscrs
          /\ subsTree' = subsTree
          /\ invoked' = invoked
          /\ persistentMessages' = persistentMessages
          /\ globalOptions' = globalOptions]_vars

\* the unit of a subscriber with a budget of 2, unsubscribed while the unit
\* was pending, has run: no invocation, the budget is still 2
C9_Witness ==
    /\ lastOp.op = "deferred"
    /\ calls = << >>
    /\ ~ SeqHas(subscrs, lastOp.args.token)
    /\ FieldIs(objects[lastOp.args.token].options, "invocations", 2)
    /\ invoked[lastOp.args.token].count = 0

-----------------------------------------------------------------------------
(* Properties of invocation budgets (SpecBudget) *)

\* the tokens held anywhere in the trie
RECURSIVE TrieTokens(_)
TrieTokens(node) ==
    (IF Has(node, "subscribers")
     THEN { node.subscribers[i] : i \in 1..Len(node.subscribers) }
     ELSE {})
    \cup
    (IF Has(node, "topics")
     THEN UNION { TrieTokens(node.topics[k]) : k \in DOMAIN node.topics }
     ELSE {})

\* C10: a subscriber created with invocations N >= 1 is invoked at most N
\* times, over synchronous and deferred deliveries and replays; from its
\* N-th invocation on it is neither in the registry nor in the trie.
C10_InvocationLimit ==
    \A t \in DOMAIN invoked :
        invoked[t].budget > 0 =>
            /\ invoked[t].count <= invoked[t].budget
            /\ invoked[t].count = invoked[t].budget =>
                   /\ ~ SeqHas(subscrs, t)
                   /\ t \notin TrieTokens(subsTree)

-----------------------------------------------------------------------------
(* Properties of conditions (SpecCond) *)

\* the tokens of the units in the queue
QueuedTokens(q) == { q[i].token : i \in 1..Len(q) }

\* C11: a subscriber with a condition is a candidate of a publish only if
\* the condition returns exactly true for the published payload; otherwise
\* the publish neither invokes nor schedules its handler, and it stays in
\* registry and trie.
C11_ConditionFilter ==
    [][IsPublish(lastOp') =>
          \A s \in Registered :
              Has(s.options, "condition") =>
                  IF ConditionResult(s.options.condition, lastOp'.args.data) = Bool(TRUE)
                  THEN TRUE
                  ELSE /\ ~ IsCandidate(lastOp'.matched, s.token)
                       /\ ~ WasInvoked(calls', s.token)
                       /\ \A i \in (Len(queue) + 1)..Len(queue') : queue'[i].token # s.token
                       /\ SeqHas(subscrs', s.token)
                       /\ s.token \in TrieTokens(subsTree')]_vars

\* a synchronous publish on a invoked the subscriber without condition and
\* not the subscriber on a whose condition returns 1, which is still registered
C11_Witness ==
    /\ CompletedSync(lastOp)
    /\ lastOp.args.topic = T1("a")
    /\ Len(calls) = 1
    /\ \E t \in DOMAIN objects :
           /\ objects[t].topic = T1("a")
           /\ FieldIs(objects[t].options, "condition", "c_truthy")
           /\ SeqHas(subscrs, t)
           /\ ~ WasInvoked(calls, t)

\* a publish of d1 invoked a subscriber whose condition is true for d1 only
C11_WitnessPass ==
    /\ CompletedSync(lastOp)
    /\ lastOp.args.data = "d1"
    /\ \E i \in 1..Len(calls) :
           FieldIs(objects[calls[i].token].options, "condition", "c_d1")

-----------------------------------------------------------------------------
(* Properties of the persistent store (SpecPersist) *)

\* the stored message resolves to synchronous delivery
StoredSync(m) ==
    IF Has(m.options, "async") THEN ~ m.options.async ELSE ~ globalOptions.async

\* the units appended to the queue by the step
NewUnits == SubSeq(queue', Len(queue) + 1, Len(queue'))

HasUnit(units, token, topic, data) ==
    \E i \in 1..Len(units) :
        units[i].token = token /\ units[i].topic = topic /\ units[i].data = data

\* a message stored under the topic of the subscription or below, with that
\* key and payload
IsStoredFor(topic, key, data) ==
    \E i \in 1..Len(persistentMessages) :
        /\ persistentMessages[i].key = key
        /\ persistentMessages[i].data = data
        /\ IsBelowOrSame(key, topic)

\* C12: a subscribe with persist true is delivered every stored message of
\* its topic or below, with the stored payload and topic: inside subscribe
\* when the stored async flag (else the global default) is false, as a
\* deferred unit otherwise, and nothing else.  A subscribe without persist
\* true replays nothing, and a publish without persist true stores nothing.
C12_PersistReplay ==
    [][/\ (lastOp'.op = "subscribe" /\ lastOp'.ret.t = "number") =>
            LET token == lastOp'.ret.v
                topic == lastOp'.args.topic.v
            IN  IF FieldIs(lastOp'.args.options.v, "persist", TRUE)
                THEN /\ \A i \in 1..Len(persistentMessages) :
                            LET m == persistentMessages[i] IN
                            IsBelowOrSame(m.key, topic) =>
                                IF StoredSync(m)
                                THEN /\ InvokedWith(calls', token, m.key, m.data)
                                     /\ ~ HasUnit(NewUnits, token, m.key, m.data)
                                ELSE /\ HasUnit(NewUnits, token, m.key, m.data)
                                     /\ ~ InvokedWith(calls', token, m.key, m.data)
                     /\ \A i \in 1..Len(calls') :
                            /\ calls'[i].token = token
                            /\ IsStoredFor(topic, calls'[i].topic, calls'[i].data)
                     /\ \A i \in 1..Len(NewUnits) :
                            /\ NewUnits[i].token = token
                            /\ IsStoredFor(topic, NewUnits[i].topic, NewUnits[i].data)
                ELSE calls' = << >> /\ queue' = queue
       /\ (IsPublish(lastOp') /\ ~ FieldIs(lastOp'.args.options, "persist", TRUE)) =>
            persistentMessages' = persistentMessages]_vars

\* a subscribe with persist on a had its handler called, inside subscribe,
\* with the payload d1 stored under a/b
C12_Witness ==
    /\ lastOp.op = "subscribe"
    /\ lastOp.args.topic = Str(T1("a"))
    /\ FieldIs(lastOp.args.options.v, "persist", TRUE)
    /\ InvokedWith(calls, lastOp.ret.v, T2("a", "b"), "d1")

\* the unit of a deferred replay has run: the handler was invoked with the
\* stored topic and payload although no publish followed the subscribe
C12_WitnessDeferred ==
    /\ lastOp.op = "deferred"
    /\ Len(calls) = 1
    /\ FieldIs(lastOp.args.options, "persist", TRUE)
    /\ \E i \in 1..Len(persistentMessages) :
           /\ persistentMessages[i].key = calls[1].topic
           /\ persistentMessages[i].data = calls[1].data

\* a subscribe without persist on a topic with a stored message replayed nothing
C12_WitnessNoPersist ==
    /\ lastOp.op = "subscribe"
    /\ ~ Has(lastOp.args.options.v, "persist")
    /\ \E i \in 1..Len(persistentMessages) :
           persistentMessages[i].key = lastOp.args.topic.v
    /\ calls = << >>

-----------------------------------------------------------------------------
\* C13: removePersistentMessage(T) removes the entry stored under exactly T
\* and nothing else: the other entries, the subscriptions and the pending
\* units stay, and without an entry under T nothing changes.  A later
\* subscribe with persist replays only what is stored then.
C13_RemovePersistent ==
    [][/\ lastOp'.op = "removePersistentMessage" =>
            /\ persistentMessages' =
                   SelectSeq(persistentMessages, LAMBDA m : m.key # lastOp'.args.topic)
            /\ (\A i \in 1..Len(persistentMessages) :
                    persistentMessages[i].key # lastOp'.args.topic)
                   => persistentMessages' = persistentMessages
            /\ calls' = << >>
            /\ UNCHANGED << globalOptions, tokenCounter, objects, subscrs, subsTree,
                            queue, invoked >>
       /\ (lastOp'.op = "subscribe" /\ lastOp'.ret.t = "number") =>
            /\ \A i \in 1..Len(calls') :
                   IsStoredFor(lastOp'.args.topic.v, calls'[i].topic, calls'[i].data)
            /\ \A i \in 1..Len(NewUnits) :
                   IsStoredFor(lastOp'.args.topic.v, NewUnits[i].topic, NewUnits[i].data)]_vars

\* the message under a was removed while one under a/b and a subscriber
\* stay; the store held both before
C13_Witness ==
    /\ lastOp.op = "removePersistentMessage"
    /\ lastOp.args.topic = T1("a")
    /\ Len(persistentMessages) = 1
    /\ persistentMessages[1].key = T2("a", "b")
    /\ subscrs # << >>

-----------------------------------------------------------------------------
\* the entries stored under a key
EntriesOf(messages, key) == { i \in 1..Len(messages) : messages[i].key = key }

Keys(messages) == { messages[i].key : i \in 1..Len(messages) }

\* C14: the store holds at most one entry per topic; a publish with persist
\* true leaves exactly one entry under its topic, with the published payload
\* and options, and the other entries as they were; a subscribe with persist
\* replays a stored key at most once; only removePersistentMessage removes
\* an entry.
C14_OneEntryPerTopic ==
    [][/\ \A k \in Keys(persistentMessages') :
              Cardinality(EntriesOf(persistentMessages', k)) = 1
       /\ (lastOp'.op = "publish" /\ FieldIs(lastOp'.args.options, "persist", TRUE)) =>
              /\ \E i \in 1..Len(persistentMessages') :
                     persistentMessages'[i] = [key |-> lastOp'.args.topic,
                                               data |-> lastOp'.args.data,
                                               options |-> lastOp'.args.options]
              /\ \A i \in 1..Len(persistentMessages) :
                     persistentMessages[i].key # lastOp'.args.topic =>
                         \E j \in 1..Len(persistentMessages') :
                             persistentMessages'[j] = persistentMessages[i]
              /\ Keys(persistentMessages') =
                     Keys(persistentMessages) \cup { lastOp'.args.topic }
       /\ (lastOp'.op = "subscribe") =>
              \A k \in Keys(persistentMessages) :
                  /\ Cardinality({ i \in 1..Len(calls') : calls'[i].topic = k }) <= 1
                  /\ Cardinality({ i \in 1..Len(NewUnits) : NewUnits[i].topic = k }) <= 1
       /\ (lastOp'.op # "removePersistentMessage") =>
              Keys(persistentMessages) \subseteq Keys(persistentMessages')
       /\ (lastOp'.op \notin { "removePersistentMessage", "publish" }) =>
              persistentMessages' = persistentMessages]_vars

\* a persistent publish of d1 on a/b replaced the entry of an earlier
\* persistent publish of d0 on a/b, whose deferred unit is still pending
C14_Witness ==
    /\ lastOp.op = "publish"
    /\ lastOp.args.topic = T2("a", "b")
    /\ lastOp.args.data = "d1"
    /\ FieldIs(lastOp.args.options, "persist", TRUE)
    /\ \E i \in 1..Len(queue) :
           /\ queue[i].topic = T2("a", "b")
           /\ queue[i].data = "d0"
           /\ FieldIs(queue[i].options, "persist", TRUE)
    /\ \A i \in 1..Len(persistentMessages) :
           persistentMessages[i].key = T2("a", "b") => persistentMessages[i].data = "d1"

\* a subscribe with persist on a was replayed, inside subscribe, one message
\* for each of the two stored keys
C14_WitnessReplay ==
    /\ lastOp.op = "subscribe"
    /\ Len(persistentMessages) = 2
    /\ Len(calls) = 2
    /\ calls[1].topic # calls[2].topic

-----------------------------------------------------------------------------
(* Properties of the topics of replay (SpecReplay) *)

\* after the step, a publish on topic key would have the subscriber among
\* its candidates
WouldMatch(token, key) ==
    IsCandidate(findSubscribers(split(key), "d0", EmptyObject, subsTree',
                                [objects |-> objects', globalOptions |-> globalOptions'],
                                << >>),
                token)

\* C15: a subscribe with persist replays the message stored under a key
\* if and only if a publish on that key matches the new subscription in
\* the trie.
C15_ReplayLikeMatcher ==
    [][(lastOp'.op = "subscribe" /\ lastOp'.ret.t = "number"
            /\ FieldIs(lastOp'.args.options.v, "persist", TRUE)) =>
          \A i \in 1..Len(persistentMessages) :
              LET m == persistentMessages[i] IN
              InvokedWith(calls', lastOp'.ret.v, m.key, m.data)
                  <=> WouldMatch(lastOp'.ret.v, m.key)]_vars

-----------------------------------------------------------------------------
(* Properties of the options of replay (SpecReplayOptions) *)

\* the handler of the new subscriber returns false for the stored message
\* m, whose stored options do not say cancelable false
StopsReplay(m) ==
    /\ IsBelowOrSame(m.key, lastOp'.args.topic.v)
    /\ IsFalse(HandlerResult(lastOp'.args.handler.v, m.data))
    /\ ~ FieldIs(m.options, "cancelable", FALSE)

\* C16: in a synchronous replay, a stored message is replayed to the new
\* subscriber if and only if the handler returned false for no earlier
\* stored message whose own cancelable option is not false.
C16_ReplayCancellation ==
    [][(lastOp'.op = "subscribe" /\ lastOp'.ret.t = "number"
            /\ ~ Has(lastOp'.args.options.v, "condition")) =>
          \A j \in 1..Len(persistentMessages) :
              LET m == persistentMessages[j] IN
              IsBelowOrSame(m.key, lastOp'.args.topic.v) =>
                  ( InvokedWith(calls', lastOp'.ret.v, m.key, m.data)
                      <=> \A i \in 1..(j - 1) : ~ StopsReplay(persistentMessages[i]) )]_vars

\* C17: a subscriber with persist and a condition has its handler invoked
\* for a stored message only if the condition returns true for the
\* message's payload.
C17_ReplayCondition ==
    [][(lastOp'.op = "subscribe" /\ lastOp'.ret.t = "number"
            /\ Has(lastOp'.args.options.v, "condition")) =>
          \A i \in 1..Len(calls') :
              ConditionResult(lastOp'.args.options.v.condition, calls'[i].data)
                  = Bool(TRUE)]_vars

-----------------------------------------------------------------------------
(* Properties of unsubscription by token (SpecUnsub) *)

\* the tokens of the candidates of a publish on topic, in discovery order
CandidateTokens(tree, objs, topic) ==
    LET found == findSubscribers(split(topic), "d0", EmptyObject, tree,
                                 [objects |-> objs, globalOptions |-> globalOptions],
                                 << >>)
    IN  [i \in 1..Len(found) |-> found[i].token]

ProbeTopics == { T1("a"), T2("a", "b"), T3("a", "b", "c"), T1("b") }

\* C18: unsubscribe of a registered token removes that subscriber from
\* registry and trie and leaves every other subscription where it was: the
\* candidates of any publish are those of before without the token.  No
\* step invokes the handler of a subscriber that was not registered before
\* the step.
C18_TokenUnsubscribe ==
    [][/\ (lastOp'.op = "unsubscribe" /\ lastOp'.args.topicOrToken.t = "number"
              /\ SeqHas(subscrs, lastOp'.args.topicOrToken.v)) =>
            LET token == lastOp'.args.topicOrToken.v IN
            /\ lastOp'.ret = Undefined
            /\ subscrs' = SelectSeq(subscrs, LAMBDA t : t # token)
            /\ token \notin TrieTokens(subsTree')
            /\ \A topic \in ProbeTopics :
                   CandidateTokens(subsTree', objects', topic) =
                       SelectSeq(CandidateTokens(subsTree, objects, topic),
                                 LAMBDA t : t # token)
            /\ UNCHANGED << objects, queue, persistentMessages, globalOptions >>
            /\ calls' = << >>
       /\ \A i \in 1..Len(calls') : SeqHas(subscrs, calls'[i].token)]_vars

\* token 0 was unsubscribed while a unit for it is pending and while another
\* subscriber on the same topic stays registered
C18_Witness ==
    /\ lastOp.op = "unsubscribe"
    /\ lastOp.ret = Undefined
    /\ lastOp.args.topicOrToken = Num(0)
    /\ ~ SeqHas(subscrs, 0)
    /\ \E i \in 1..Len(queue) : queue[i].token = 0
    /\ \E t \in DOMAIN objects :
           t # 0 /\ SeqHas(subscrs, t) /\ objects[t].topic = objects[0].topic

\* a synchronous publish on a/b invoked the two subscribers that are left
\* after the unsubscription of a third on its topic
C18_WitnessLater ==
    /\ CompletedSync(lastOp)
    /\ Len(calls) = 2
    /\ \E t \in DOMAIN objects :
           /\ ~ SeqHas(subscrs, t)
           /\ IsBelowOrSame(lastOp.args.topic, objects[t].topic)

-----------------------------------------------------------------------------
(* Properties of lenient unsubscription (SpecLenient) *)

\* the lenient mode of the unsubscribe call op under the global default:
\* the second argument when it is a boolean, else the third argument when
\* it is given, else the default
IsLenient(op, default) ==
    IF op.args.handler.t = "boolean"
    THEN op.args.handler = Bool(TRUE)
    ELSE IF ~ isUndefined(op.args.lenientUnsubscribe)
    THEN op.args.lenientUnsubscribe = Bool(TRUE)
    ELSE default

\* C19: unsubscribe of a token that is not registered returns normally in
\* lenient mode and fails in strict mode, and in both cases changes nothing.
C19_UnknownToken ==
    [][(lastOp'.op = "unsubscribe" /\ lastOp'.args.topicOrToken.t = "number"
            /\ ~ SeqHas(subscrs, lastOp'.args.topicOrToken.v)) =>
          /\ IF IsLenient(lastOp', globalOptions.lenientUnsubscribe)
             THEN lastOp'.ret = Undefined
             ELSE IsThrow(lastOp'.ret)
          /\ UNCHANGED << subscrs, subsTree, objects, persistentMessages, queue,
                          globalOptions, tokenCounter >>
          /\ calls' = << >>]_vars

\* a lenient unsubscribe of a token that was never issued returned normally,
\* with a subscriber and a stored message in place
C19_Witness ==
    /\ lastOp.op = "unsubscribe"
    /\ lastOp.args.topicOrToken.t = "number"
    /\ lastOp.args.topicOrToken.v > tokenCounter
    /\ lastOp.ret = Undefined
    /\ subscrs # << >>
    /\ persistentMessages # << >>

\* a strict unsubscribe of token 0, which was issued and is not registered
\* any more, failed
C19_WitnessSecond ==
    /\ lastOp.op = "unsubscribe"
    /\ lastOp.args.topicOrToken = Num(0)
    /\ 0 \in DOMAIN objects
    /\ ~ SeqHas(subscrs, 0)
    /\ IsThrow(lastOp.ret)

\* the unsubscribe call op finds a token that is not registered, or lacks
\* the token or the handler: the call fails unless it is lenient
LacksTarget(op) ==
    \/ isUndefined(op.args.topicOrToken)
    \/ op.args.topicOrToken.t = "number" /\ ~ SeqHas(subscrs, op.args.topicOrToken.v)
    \/ /\ op.args.topicOrToken.t = "array"
       /\ \E i \in 1..Len(op.args.topicOrToken.v) :
              ~ SeqHas(subscrs, op.args.topicOrToken.v[i].v)
    \/ op.args.topicOrToken.t = "string" /\ isUndefined(op.args.handler)

\* C20: an unsubscribe call is lenient by its explicit boolean argument
\* (the second argument, or the third when the second is none), and by the
\* global default only without one: a call that lacks its target fails
\* exactly when that resolves to strict.
C20_LenientResolution ==
    [][(lastOp'.op = "unsubscribe" /\ LacksTarget(lastOp')) =>
          (IsThrow(lastOp'.ret) <=> ~ IsLenient(lastOp', globalOptions.lenientUnsubscribe))]_vars

\* an explicit false made the call strict under the global default true
C20_Witness ==
    /\ lastOp.op = "unsubscribe"
    /\ globalOptions.lenientUnsubscribe
    /\ lastOp.args.handler = Bool(FALSE)
    /\ IsThrow(lastOp.ret)

\* an explicit true as third argument made the topic form without handler
\* lenient under the global default false
C20_WitnessThird ==
    /\ lastOp.op = "unsubscribe"
    /\ ~ globalOptions.lenientUnsubscribe
    /\ lastOp.args.topicOrToken.t = "string"
    /\ isUndefined(lastOp.args.handler)
    /\ lastOp.args.lenientUnsubscribe = Bool(TRUE)
    /\ lastOp.ret = Undefined

-----------------------------------------------------------------------------
(* Properties of unsubscription by topic and handler (SpecTopicUnsub) *)

\* op is an unsubscribe call of the topic and handler form
IsTopicUnsubscribe(op) ==
    /\ op.op = "unsubscribe"
    /\ op.args.topicOrToken.t = "string"
    /\ op.args.handler.t = "function"

\* the tokens of the registered subscribers with the topic and the handler
\* of the unsubscribe call op
MatchesOf(op) ==
    { t \in TrieTokens(subsTree) \cup { subscrs[k] : k \in 1..Len(subscrs) } :
          /\ SeqHas(subscrs, t)
          /\ objects[t].topic = op.args.topicOrToken.v
          /\ Fn(objects[t].handler) = op.args.handler }

\* C21: unsubscribe by topic and handler removes exactly one subscriber,
\* the one with the smallest token among the registered subscribers of that
\* topic and handler; every other subscriber (its duplicates, the other
\* handlers of the topic, the handler on other topics) stays in registry
\* and trie and is a candidate of the same publishes as before.
C21_TopicHandlerUnsubscribe ==
    [][(IsTopicUnsubscribe(lastOp') /\ MatchesOf(lastOp') # {}) =>
          LET M == MatchesOf(lastOp')
              token == CHOOSE t \in M : \A u \in M : t <= u
          IN  /\ lastOp'.ret = Undefined
              /\ subscrs' = SelectSeq(subscrs, LAMBDA t : t # token)
              /\ TrieTokens(subsTree') = TrieTokens(subsTree) \ { token }
              /\ \A topic \in ProbeTopics :
                     CandidateTokens(subsTree', objects', topic) =
                         SelectSeq(CandidateTokens(subsTree, objects, topic),
                                   LAMBDA t : t # token)
              /\ UNCHANGED << objects, queue, persistentMessages, globalOptions >>
              /\ calls' = << >>]_vars

\* of three subscribers with the same topic and handler the first was
\* removed by topic and handler, and the other two stay registered
C21_Witness ==
    /\ IsTopicUnsubscribe(lastOp)
    /\ lastOp.ret = Undefined
    /\ subscrs = << 1, 2 >>
    /\ 0 \in DOMAIN objects
    /\ \A t \in 1..2 : /\ objects[t].topic = objects[0].topic
                        /\ objects[t].handler = objects[0].handler
    /\ objects[0].topic = lastOp.args.topicOrToken.v
    /\ Fn(objects[0].handler) = lastOp.args.handler

\* after such a removal a synchronous publish invoked the duplicate that
\* stayed and the subscriber of the same handler on the other topic
C21_WitnessLater ==
    /\ CompletedSync(lastOp)
    /\ subscrs = << 1, 2 >>
    /\ 0 \in DOMAIN objects
    /\ objects[1].topic = objects[0].topic /\ objects[1].handler = objects[0].handler
    /\ objects[2].topic # objects[0].topic /\ objects[2].handler = objects[0].handler
    /\ WasInvoked(calls, 1) /\ WasInvoked(calls, 2)

\* C22: unsubscribe by topic and handler, when no registered subscriber has
\* both that topic and that handler, fails in strict mode and returns
\* normally in lenient mode; nothing is changed.
C22_NoMatchingPair ==
    [][(IsTopicUnsubscribe(lastOp') /\ MatchesOf(lastOp') = {}) =>
          /\ IF IsLenient(lastOp', globalOptions.lenientUnsubscribe)
             THEN lastOp'.ret = Undefined
             ELSE IsThrow(lastOp'.ret)
          /\ UNCHANGED << subscrs, subsTree, objects, persistentMessages, queue,
                          globalOptions >>]_vars

-----------------------------------------------------------------------------
(* Properties of rejected calls (SpecErrors) *)

\* C23: configure called without argument fails and leaves the global
\* options as they were.
C23_ConfigureWithoutOptions ==
    [][(lastOp'.op = "configure" /\ isUndefined(lastOp'.args.options)) =>
          /\ IsThrow(lastOp'.ret)
          /\ UNCHANGED globalOptions]_vars

\* C24: a publish on a topic with `*` in it throws; no handler is invoked,
\* no unit is deferred, and registry and trie stay as they were.
C24_WildcardPublish ==
    [][(lastOp'.op = "publish" /\ includesChar(lastOp'.args.topic, "*")) =>
          /\ IsThrow(lastOp'.ret)
          /\ calls' = << >>
          /\ UNCHANGED << queue, subscrs, subsTree, objects >>]_vars

\* a publish on `*` was rejected while a subscriber on `*` and another
\* subscriber are registered
C24_Witness ==
    /\ lastOp.op = "publish"
    /\ lastOp.args.topic = T1("*")
    /\ IsThrow(lastOp.ret)
    /\ Len(subscrs) = 2
    /\ \E t \in DOMAIN objects : SeqHas(subscrs, t) /\ objects[t].topic = T1("*")

\* a publish on a/* was rejected while the global default is synchronous
\* and a subscriber on a is registered
C24_WitnessBelow ==
    /\ lastOp.op = "publish"
    /\ lastOp.args.topic = T2("a", "*")
    /\ IsThrow(lastOp.ret)
    /\ ~ globalOptions.async
    /\ \E t \in DOMAIN objects : SeqHas(subscrs, t) /\ objects[t].topic = T1("a")

\* the subscribe call op has no topic, no handler, or a topic that
\* contains `undefined`
IsInvalidSubscribe(op) ==
    /\ op.op = "subscribe"
    /\ \/ isUndefined(op.args.topic)
       \/ isUndefined(op.args.handler)
       \/ IF isUndefined(op.args.topic)
          THEN FALSE
          ELSE includes(op.args.topic.v, << "u", "n", "d", "e", "f", "i", "n", "e", "d" >>)

\* C25: subscribe without topic, without handler, or with a topic that
\* contains `undefined` throws; it adds nothing to registry or trie, invokes
\* no handler and defers no unit (no replay), and leaves the subscribers
\* and the stored messages as they were.
C25_InvalidSubscribe ==
    [][IsInvalidSubscribe(lastOp') =>
          /\ IsThrow(lastOp'.ret)
          /\ calls' = << >>
          /\ UNCHANGED << subscrs, subsTree, objects, persistentMessages, queue >>]_vars

\* a persistent subscribe on a without handler was rejected while a message
\* is stored for a and a subscriber is registered
C25_Witness ==
    /\ lastOp.op = "subscribe"
    /\ lastOp.args.topic = Str(T1("a"))
    /\ isUndefined(lastOp.args.handler)
    /\ FieldIs(lastOp.args.options.v, "persist", TRUE)
    /\ IsThrow(lastOp.ret)
    /\ \E i \in 1..Len(persistentMessages) : persistentMessages[i].key = T1("a")
    /\ subscrs # << >>

\* a subscribe with a handler on a topic that contains `undefined` was
\* rejected
C25_WitnessUndefinedTopic ==
    /\ lastOp.op = "subscribe"
    /\ lastOp.args.topic = Str(UndefinedTopic)
    /\ lastOp.args.handler = Fn("h")
    /\ IsThrow(lastOp.ret)

\* a subscribe without topic was rejected
C25_WitnessNoTopic ==
    /\ lastOp.op = "subscribe"
    /\ isUndefined(lastOp.args.topic)
    /\ lastOp.args.handler = Fn("h")
    /\ IsThrow(lastOp.ret)

-----------------------------------------------------------------------------
(* Properties of tokens, registry and trie (SpecPrune) *)

\* C26: the token a successful subscribe returns is a number greater than
\* every token issued before it, whatever calls (failed subscribes,
\* unsubscriptions, publishes) lie between; so no token is issued twice,
\* none is reused after its subscriber was removed, and the registry never
\* holds a token twice.
C26_TokenUniqueness ==
    [][/\ tokenCounter' >= tokenCounter
       /\ \A t \in DOMAIN objects' : t <= tokenCounter' /\ objects'[t].token = t
       /\ \A i, j \in 1..Len(subscrs') : subscrs'[i] = subscrs'[j] => i = j
       /\ (lastOp'.op = "subscribe" /\ ~ IsThrow(lastOp'.ret)) =>
              /\ lastOp'.ret.t = "number"
              /\ lastOp'.ret.v > tokenCounter
              /\ \A t \in DOMAIN objects : lastOp'.ret.v > t
              /\ DOMAIN objects' = DOMAIN objects \cup { lastOp'.ret.v }
       /\ lastOp'.op # "subscribe" => DOMAIN objects' = DOMAIN objects]_vars

\* a subscribe returned token 2, after token 0 was issued and its
\* subscriber removed, and after the subscribe call for token 1 failed
C26_Witness ==
    /\ lastOp.op = "subscribe"
    /\ lastOp.ret = Num(2)
    /\ DOMAIN objects = { 0, 2 }
    /\ subscrs = << 2 >>

\* the node has no subscriber and no child
IsEmptyNode(node) ==
    /\ Has(node, "subscribers") => node.subscribers = << >>
    /\ Has(node, "topics") => DOMAIN node.topics = {}

\* some node below this one has no subscriber and no child
RECURSIVE HasEmptyNode(_)
HasEmptyNode(node) ==
    /\ Has(node, "topics")
    /\ \E k \in DOMAIN node.topics :
           IsEmptyNode(node.topics[k]) \/ HasEmptyNode(node.topics[k])

\* the trie has a node for the path
RECURSIVE NodeExists(_, _)
NodeExists(node, topicArray) ==
    \/ topicArray = << >>
    \/ /\ Has(node, "topics")
       /\ Head(topicArray) \in DOMAIN node.topics
       /\ NodeExists(node.topics[Head(topicArray)], Tail(topicArray))

\* the paths of the trie that the topics of SpecPrune can create
PrunePaths == PruneTopics \cup { T2("a", "b") }

\* C27: no node below the root of the trie is without subscriber and
\* without child; a path of the trie exists only while a subscriber is
\* registered on it or below it.
C27_Pruning ==
    /\ ~ HasEmptyNode(subsTree)
    /\ \A p \in PrunePaths :
           NodeExists(subsTree, split(p)) =>
               \E t \in DOMAIN objects :
                   SeqHas(subscrs, t) /\ IsBelowOrSame(objects[t].topic, p)

\* the only subscriber, on a/b/c, was removed by topic and handler, and the
\* root has no child left
C27_Witness ==
    /\ IsTopicUnsubscribe(lastOp)
    /\ lastOp.args.topicOrToken = Str(T3("a", "b", "c"))
    /\ DOMAIN objects = { 0 }
    /\ objects[0].topic = T3("a", "b", "c")
    /\ subscrs = << >>
    /\ Has(subsTree, "topics") /\ DOMAIN subsTree.topics = {}

\* a publish used up the budget of the subscriber on a/b/c, which was
\* removed with its path while the subscriber on a stays
C27_WitnessBudget ==
    /\ CompletedSync(lastOp)
    /\ \E t \in DOMAIN objects :
           /\ objects[t].topic = T3("a", "b", "c")
           /\ WasInvoked(calls, t)
           /\ ~ SeqHas(subscrs, t)
    /\ \E t \in DOMAIN objects : SeqHas(subscrs, t) /\ objects[t].topic = T1("a")
    /\ NodeExists(subsTree, split(T1("a")))
    /\ ~ NodeExists(subsTree, split(T2("a", "b")))

\* an array of tokens removed the subscribers on a/b/c and a/*, and the
\* third subscriber, on a, stays
C27_WitnessArray ==
    /\ lastOp.op = "unsubscribe"
    /\ lastOp.args.topicOrToken.t = "array"
    /\ subscrs = << 2 >>
    /\ DOMAIN objects = { 0, 1, 2 }
    /\ objects[0].topic = T3("a", "b", "c")
    /\ objects[1].topic = T2("a", "*")
    /\ objects[2].topic = T1("a")

\* the tokens held by the node of the path, if the trie has that node
RECURSIVE SubscribersAt(_, _)
SubscribersAt(node, topicArray) ==
    IF topicArray = << >>
    THEN IF Has(node, "subscribers")
         THEN { node.subscribers[i] : i \in 1..Len(node.subscribers) }
         ELSE {}
    ELSE IF Has(node, "topics") /\ Head(topicArray) \in DOMAIN node.topics
    THEN SubscribersAt(node.topics[Head(topicArray)], Tail(topicArray))
    ELSE {}

\* the number of places of the trie that hold the token
RECURSIVE Occurrences(_, _)
RECURSIVE SumOccurrences(_, _, _)
SumOccurrences(node, token, keys) ==
    IF keys = {}
    THEN 0
    ELSE LET k == CHOOSE x \in keys : TRUE
         IN  Occurrences(node.topics[k], token)
                 + SumOccurrences(node, token, keys \ { k })

Occurrences(node, token) ==
    (IF Has(node, "subscribers")
     THEN Cardinality({ i \in 1..Len(node.subscribers) : node.subscribers[i] = token })
     ELSE 0)
    + (IF Has(node, "topics") THEN SumOccurrences(node, token, DOMAIN node.topics) ELSE 0)

\* C28: every registered subscriber is held by the trie once, at the node
\* that the segments of its topic lead to, and the trie holds no token
\* that is not registered.
C28_RegistryTrieConsistency ==
    /\ \A k \in 1..Len(subscrs) :
           /\ subscrs[k] \in SubscribersAt(subsTree, split(objects[subscrs[k]].topic))
           /\ Occurrences(subsTree, subscrs[k]) = 1
    /\ \A t \in TrieTokens(subsTree) : SeqHas(subscrs, t)

\* two subscribers share the node of a/b/c and a third is on a/*, after a
\* removal
C28_Witness ==
    /\ lastOp.op = "unsubscribe"
    /\ Len(subscrs) = 2
    /\ SubscribersAt(subsTree, split(T2("a", "*"))) # {}
    /\ SubscribersAt(subsTree, split(T3("a", "b", "c"))) # {}
    /\ Cardinality(DOMAIN objects) = 3

-----------------------------------------------------------------------------
(* Properties of exceptions of handlers (SpecExcept) *)

\* op is an accepted publish that asked for synchronous delivery
IsSyncPublish(op) == IsPublish(op) /\ FieldIs(op.args.options, "async", FALSE)

\* the handleExceptions of a publish with these options: the option when
\* the publish has it, else the global default
EffectiveHandleExceptions(options, default) ==
    IF Has(options, "handleExceptions") THEN options.handleExceptions ELSE default

SomeCallThrew(cs) == \E i \in 1..Len(cs) : IsThrow(cs[i].ret)

\* C29: the option handleExceptions of a publish, when given, decides alone
\* whether an exception of a handler is caught, and the global default
\* decides only without it: a synchronous publish in which a handler threw
\* throws exactly when that resolves to false.
C29_HandleExceptionsResolution ==
    [][(IsSyncPublish(lastOp') /\ SomeCallThrew(calls')) =>
          (IsThrow(lastOp'.ret) <=>
               ~ EffectiveHandleExceptions(lastOp'.args.options,
                                           globalOptions.handleExceptions))]_vars

C30_WitnessCancel ==
    /\ IsSyncPublish(lastOp)
    /\ globalOptions.handleExceptions
    /\ ~ Has(lastOp.args.options, "handleExceptions")
    /\ Len(lastOp.matched) = 3
    /\ Len(calls) = 2
    /\ IsThrow(calls[1].ret)
    /\ IsFalse(calls[2].ret)
    /\ lastOp.ret = Bool(FALSE)

-----------------------------------------------------------------------------
(* Properties of exceptions that are not handled (SpecExcept) *)

\* C31: in a synchronous publish whose exceptions are not handled (the
\* option handleExceptions when given, else the global default, is false),
\* a handler that throws ends the publish with its exception: it is the
\* last handler invoked, the candidates before it were invoked in their
\* order, and every subscriber stays registered.
C31_UnhandledExceptionPropagates ==
    [][(/\ IsSyncPublish(lastOp')
        /\ ~ EffectiveHandleExceptions(lastOp'.args.options, globalOptions.handleExceptions)
        /\ SomeCallThrew(calls'))
       =>
          LET n == Len(calls') IN
          /\ IsThrow(lastOp'.ret)
          /\ IsThrow(calls'[n].ret)
          /\ \A i \in 1..n : calls'[i].token = lastOp'.matched[i].token
          /\ UNCHANGED << subscrs, subsTree, objects >>]_vars

\* the options of the publisher before any call of configure
DefaultOptions ==
    [async |-> TRUE, handleExceptions |-> FALSE, lenientUnsubscribe |-> FALSE]

\* C33: under the default options, and without the option handleExceptions
\* on the publish, a synchronous publish in which a handler throws does not
\* throw, and invokes the candidates after that handler.
C33_DefaultCatches ==
    [][(/\ IsSyncPublish(lastOp')
        /\ globalOptions = DefaultOptions
        /\ ~ Has(lastOp'.args.options, "handleExceptions")
        /\ SomeCallThrew(calls'))
       =>
          /\ ~ IsThrow(lastOp'.ret)
          /\ \/ Len(calls') = Len(lastOp'.matched)
             \/ SomeCallReturnedFalse(calls')]_vars

-----------------------------------------------------------------------------
(* Properties of exceptions in deferred units (SpecIsolate) *)

\* C32: an asynchronous publish whose exceptions are not handled returns
\* true with one unit per candidate pending and no handler invoked; the
\* unit in which a handler throws leaves the units pending after it, the
\* registry and the trie as they were; and every unit of a registered
\* subscriber invokes its handler once, with its topic and payload,
\* whatever the units before it did.
C32_DeferredExceptionIsolated ==
    [][/\ (/\ IsPublish(lastOp')
           /\ IsAsync(lastOp')
           /\ ~ EffectiveHandleExceptions(lastOp'.args.options,
                                          globalOptions.handleExceptions))
          => /\ lastOp'.ret = Bool(TRUE)
             /\ calls' = << >>
             /\ queue' = queue \o UnitsOf(lastOp')
       /\ (lastOp'.op = "deferred" /\ queue # << >>)
          => /\ queue' = Tail(queue)
             /\ UNCHANGED << subscrs, subsTree, objects >>
             /\ SeqHas(subscrs, Head(queue).token) =>
                    /\ Len(calls') = 1
                    /\ calls'[1].token = Head(queue).token
                    /\ calls'[1].topic = Head(queue).topic
                    /\ calls'[1].data = Head(queue).data]_vars

\* the unit of the first candidate failed with the exception of its
\* handler under the global default false, and the unit of the second
\* candidate is still pending
C32_Witness ==
    /\ lastOp.op = "deferred"
    /\ ~ globalOptions.handleExceptions
    /\ IsThrow(lastOp.ret)
    /\ lastOp.args.token = 0
    /\ Len(queue) = 1
    /\ queue[1].token = 1
    /\ objects[1].handler = "h"

\* the unit after a failed unit of the same publish has run and invoked
\* its handler
C32_WitnessAfter ==
    /\ lastOp.op = "deferred"
    /\ lastOp.args.token = 1
    /\ objects[0].handler = "h_throw"
    /\ Len(calls) = 1
    /\ calls[1].token = 1
    /\ ~ IsThrow(lastOp.ret)
    /\ queue = << >>

\* the unit of the second candidate failed after the unit of the first
\* candidate had run
C32_WitnessBefore ==
    /\ lastOp.op = "deferred"
    /\ lastOp.args.token = 1
    /\ objects[0].handler = "h"
    /\ IsThrow(lastOp.ret)
    /\ queue = << >>

-----------------------------------------------------------------------------
(* Properties of the choice of delivery (SpecUniform) *)

C34_WitnessDeferred ==
    /\ IsPublish(lastOp)
    /\ FieldIs(lastOp.args.options, "async", TRUE)
    /\ ~ globalOptions.async
    /\ calls = << >>
    /\ Len(queue) = 2
    /\ \E i \in 1..2 : FieldIs(objects[queue[i].token].options, "async", FALSE)

\* a publish with the option async false, under the global default true,
\* invoked its candidates on the stack
C34_WitnessOption ==
    /\ IsPublish(lastOp)
    /\ FieldIs(lastOp.args.options, "async", FALSE)
    /\ globalOptions.async
    /\ Len(calls) = 2
    /\ \E i \in 1..2 : FieldIs(objects[calls[i].token].options, "async", TRUE)

-----------------------------------------------------------------------------
(* Properties of the set of candidates (SpecExact) *)

\* the segments S of a subscription match the segments P of a published
\* topic: S is not longer than P, and each segment of S is `*` or the
\* segment of P at its position
SegmentsMatch(S, P) ==
    /\ Len(S) <= Len(P)
    /\ \A i \in 1..Len(S) : S[i] = << "*" >> \/ S[i] = P[i]

\* C35: the candidates of a publish on a topic without `*` are the
\* registered subscribers whose segments match those of the topic and whose
\* condition, if any, returns true for the payload, each of them once; a
\* synchronous publish that no handler cancels invokes each of them once.
C35_ExactMatchSet ==
    [][IsPublish(lastOp') =>
          LET P == split(lastOp'.args.topic)
              expected == { s \in Registered :
                               /\ SegmentsMatch(split(s.topic), P)
                               /\ ConditionHolds(s, lastOp'.args.data) }
          IN  /\ MatchedTokens(lastOp') = { s.token : s \in expected }
              /\ Len(lastOp'.matched) = Cardinality(expected)
              /\ CompletedSync(lastOp') =>
                     /\ Len(calls') = Cardinality(expected)
                     /\ \A s \in expected : WasInvoked(calls', s.token)]_vars

\* a publish on a/x/c invoked the subscriber on a/*/c, and not the
\* subscriber on a/b/c
C35_Witness ==
    /\ CompletedSync(lastOp)
    /\ lastOp.args.topic = T3("a", "x", "c")
    /\ Len(subscrs) = 2
    /\ Len(calls) = 1
    /\ objects[calls[1].token].topic = T3("a", "*", "c")
    /\ \E t \in DOMAIN objects : objects[t].topic = T3("a", "b", "c")

\* a publish on a/b/c invoked the subscribers on a/*/c and on */b, once
\* each
C35_WitnessBoth ==
    /\ CompletedSync(lastOp)
    /\ lastOp.args.topic = T3("a", "b", "c")
    /\ Len(calls) = 2
    /\ { objects[calls[i].token].topic : i \in 1..2 }
           = { T3("a", "*", "c"), T2("*", "b") }

\* a publish on a/b with payload d0 had no candidate while a subscriber on
\* `*` whose condition fails for d0 is registered
C35_WitnessCondition ==
    /\ CompletedSync(lastOp)
    /\ lastOp.args.topic = T2("a", "b")
    /\ lastOp.args.data = "d0"
    /\ lastOp.matched = << >>
    /\ \E t \in DOMAIN objects :
           objects[t].topic = T1("*") /\ Has(objects[t].options, "condition")

-----------------------------------------------------------------------------
(* Properties of the order of deferred delivery (SpecFifo) *)

\* the tokens of the handlers that a synchronous publish with these
\* arguments would invoke in this state, in the order of invocation
SyncOrder(topic, data, options) ==
    LET cs == publish(World, topic, data, With(options, "async", FALSE)).w.calls
    IN  [i \in 1..Len(cs) |-> cs[i].token]

\* C36: an asynchronous publish schedules its units in the order in which
\* a synchronous publish would invoke the handlers (priority descending,
\* then position of discovery ascending), each unit with the topic and the
\* payload of the publish; the pending units run first in, first out, and
\* each invokes its handler with its topic and payload.
C36_AsyncDeliveryOrder ==
    [][/\ (IsPublish(lastOp') /\ IsAsync(lastOp')) =>
              LET units == NewUnits IN
              /\ queue' = queue \o units
              /\ [i \in 1..Len(units) |-> units[i].token]
                     = SyncOrder(lastOp'.args.topic, lastOp'.args.data, lastOp'.args.options)
              /\ \A i \in 1..Len(units) :
                     /\ units[i].topic = lastOp'.args.topic
                     /\ units[i].data = lastOp'.args.data
              /\ \A i, j \in 1..Len(units) :
                     i < j =>
                        \/ PriorityOf(units[i].token) > PriorityOf(units[j].token)
                        \/ /\ PriorityOf(units[i].token) = PriorityOf(units[j].token)
                           /\ lastOp'.matched[i].position < lastOp'.matched[j].position
       /\ lastOp'.op = "deferred" =>
              /\ queue # << >>
              /\ queue' = Tail(queue)
              /\ Len(calls') = 1
              /\ calls'[1].token = Head(queue).token
              /\ calls'[1].topic = Head(queue).topic
              /\ calls'[1].data = Head(queue).data
       /\ lastOp'.op = "subscribe" => queue' = queue]_vars

\* a publish scheduled the later subscriber, of priority 1, before the
\* earlier one without priority
C36_Witness ==
    /\ IsPublish(lastOp)
    /\ Len(queue) = 2
    /\ queue[1].token = 1 /\ queue[2].token = 0
    /\ PriorityOf(1) = 1 /\ PriorityOf(0) = 0

\* the first unit of that publish has run and invoked the subscriber of
\* priority 1, and the unit of the other subscriber is pending
C36_WitnessRun ==
    /\ lastOp.op = "deferred"
    /\ Len(calls) = 1
    /\ calls[1].token = 1
    /\ PriorityOf(1) = 1 /\ PriorityOf(0) = 0
    /\ Len(queue) = 1
    /\ queue[1].token = 0

\* units of two publishes are pending, the unit of the earlier publish
\* first
C36_WitnessTwoPublishes ==
    /\ IsPublish(lastOp)
    /\ Len(queue) = 2
    /\ queue[1].data # queue[2].data
    /\ queue[2].data = lastOp.args.data

-----------------------------------------------------------------------------
(* Properties of persistent publishes on wildcard topics (SpecWildPersist) *)

\* the store holds one entry for the key, with the payload
HoldsEntry(messages, key, data) ==
    /\ Cardinality(EntriesOf(messages, key)) = 1
    /\ \A i \in EntriesOf(messages, key) : messages[i].data = data

\* C37: a persistent publish on a topic with `*` throws and invokes and
\* schedules nothing, and the store then holds one entry for that topic,
\* with the payload of the publish, in place of an earlier entry for the
\* topic, and the entries of the other topics as before.  An entry for a
\* topic with `*` stays as it is through every call that is neither a
\* persistent publish on that topic nor removePersistentMessage for it.
C37_WildcardPersistStored ==
    [][/\ (/\ lastOp'.op = "publish"
           /\ includesChar(lastOp'.args.topic, "*")
           /\ FieldIs(lastOp'.args.options, "persist", TRUE))
          => /\ IsThrow(lastOp'.ret)
             /\ calls' = << >>
             /\ queue' = queue
             /\ HoldsEntry(persistentMessages', lastOp'.args.topic, lastOp'.args.data)
             /\ Keys(persistentMessages') = Keys(persistentMessages) \cup { lastOp'.args.topic }
             /\ \A i \in 1..Len(persistentMessages) :
                    persistentMessages[i].key # lastOp'.args.topic
                    => \E j \in 1..Len(persistentMessages') :
                           persistentMessages'[j] = persistentMessages[i]
       /\ \A i \in 1..Len(persistentMessages) :
              LET m == persistentMessages[i] IN
              (/\ includesChar(m.key, "*")
               /\ ~ (lastOp'.op = "removePersistentMessage" /\ lastOp'.args.topic = m.key)
               /\ ~ (/\ lastOp'.op = "publish"
                     /\ lastOp'.args.topic = m.key
                     /\ FieldIs(lastOp'.args.options, "persist", TRUE)))
              => \E j \in 1..Len(persistentMessages') : persistentMessages'[j] = m
       /\ (lastOp'.op = "removePersistentMessage") =>
              lastOp'.args.topic \notin Keys(persistentMessages')]_vars

\* a persistent publish on a/* with payload d1 was rejected, and its
\* payload took the place of the payload d0 stored for a/* before, while a
\* message is stored for a and subscribers are registered
C37_Witness ==
    /\ lastOp.op = "publish"
    /\ lastOp.args.topic = T2("a", "*")
    /\ lastOp.args.data = "d1"
    /\ IsThrow(lastOp.ret)
    /\ Len(persistentMessages) = 2
    /\ persistentMessages[1].key = T1("a")
    /\ persistentMessages[2] = [key |-> T2("a", "*"), data |-> "d1",
                                options |-> [persist |-> TRUE, async |-> FALSE]]
    /\ Len(subscrs) = 2

\* the entry for a/* is still stored after a later plain publish on a/*
\* was rejected
C37_WitnessStays ==
    /\ lastOp.op = "publish"
    /\ lastOp.args.topic = T2("a", "*")
    /\ ~ Has(lastOp.args.options, "persist")
    /\ IsThrow(lastOp.ret)
    /\ HoldsEntry(persistentMessages, T2("a", "*"), "d0")

\* the entry for a/* was removed with removePersistentMessage
C37_WitnessRemoved ==
    /\ lastOp.op = "removePersistentMessage"
    /\ lastOp.args.topic = T2("a", "*")
    /\ persistentMessages = << >>
    /\ subscrs # << >>

-----------------------------------------------------------------------------
(* Properties of unsubscription by an array of tokens (SpecArray) *)

\* the places of the array whose token is not registered when its turn
\* comes: not registered before the call, or listed at an earlier place
FailingPlaces(tokens) ==
    { i \in 1..Len(tokens) :
          \/ ~ SeqHas(subscrs, tokens[i].v)
          \/ \E j \in 1..(i - 1) : tokens[j] = tokens[i] }

\* C39: unsubscribe with an array takes the tokens in the order of the
\* array.  A lenient call removes every listed token that is registered
\* and returns.  A strict call fails at the first token that is not
\* registered at its turn: the tokens listed before it are removed from
\* registry and trie, the tokens listed after it stay subscribed.
C39_ArrayUnsubscribe ==
    [][(lastOp'.op = "unsubscribe" /\ lastOp'.args.topicOrToken.t = "array") =>
          LET tokens == lastOp'.args.topicOrToken.v
              failing == FailingPlaces(tokens)
              last == IF failing = {} \/ IsLenient(lastOp', globalOptions.lenientUnsubscribe)
                      THEN Len(tokens)
                      ELSE (CHOOSE k \in failing : \A m \in failing : k <= m) - 1
              removed == { tokens[i].v : i \in 1..last }
          IN  /\ IsThrow(lastOp'.ret) <=> last < Len(tokens)
              /\ ~ IsThrow(lastOp'.ret) => lastOp'.ret = Undefined
              /\ subscrs' = SelectSeq(subscrs, LAMBDA t : t \notin removed)
              /\ TrieTokens(subsTree') = TrieTokens(subsTree) \ removed
              /\ \A topic \in ProbeTopics :
                     CandidateTokens(subsTree', objects', topic) =
                         SelectSeq(CandidateTokens(subsTree, objects, topic),
                                   LAMBDA t : t \notin removed)]_vars

\* the strict call with the array 1, 9, 0 failed at the token 9: token 1
\* is removed, and token 0, listed after 9, is still registered
C39_Witness ==
    /\ lastOp.op = "unsubscribe"
    /\ lastOp.args.topicOrToken = Arr(<< Num(1), Num(9), Num(0) >>)
    /\ isUndefined(lastOp.args.handler)
    /\ IsThrow(lastOp.ret)
    /\ subscrs = << 0, 2 >>
    /\ 1 \in DOMAIN objects

\* the lenient call with the array 1, 9, 0 removed the tokens 1 and 0
C39_WitnessLenient ==
    /\ lastOp.op = "unsubscribe"
    /\ lastOp.args.topicOrToken = Arr(<< Num(1), Num(9), Num(0) >>)
    /\ lastOp.args.handler = Bool(TRUE)
    /\ lastOp.ret = Undefined
    /\ subscrs = << 2 >>
    /\ DOMAIN objects = { 0, 1, 2 }

\* the strict call with the array 2, 0, 2, 1 failed at the second 2: the
\* tokens 2 and 0 are removed and token 1 is still registered
C39_WitnessTwice ==
    /\ lastOp.op = "unsubscribe"
    /\ lastOp.args.topicOrToken = Arr(<< Num(2), Num(0), Num(2), Num(1) >>)
    /\ IsThrow(lastOp.ret)
    /\ subscrs = << 1 >>
    /\ DOMAIN objects = { 0, 1, 2 }

\* after the failed call a synchronous publish invoked the subscriber that
\* was listed after the failing token
C39_WitnessLater ==
    /\ CompletedSync(lastOp)
    /\ subscrs = << 0 >>
    /\ DOMAIN objects = { 0, 1 }
    /\ WasInvoked(calls, 0)

-----------------------------------------------------------------------------
(* Properties of dispatch under handlers that change the registry          *)
(* (SpecSnapshot)                                                          *)

\* the k-th candidate of the publish op was unsubscribed by the handler of
\* an earlier candidate of that publish
RemovedBeforeTurn(op, k) ==
    /\ op.matched[k].token = 1
    /\ \E j \in 1..(k - 1) : objects[op.matched[j].token].handler = "h_unsubscribe_1"

\* the tokens of the candidates of the publish op that are registered
\* when their turn comes in a synchronous dispatch, in the order of dispatch
InTurn(op) ==
    LET kept == SelectSeq([k \in 1..Len(op.matched) |-> k],
                          LAMBDA k : ~ RemovedBeforeTurn(op, k))
    IN  [i \in 1..Len(kept) |-> op.matched[kept[i]].token]

\* C38: the candidates of a publish are subscribers registered when
\* publish is called.  A synchronous publish invokes, in order, those of
\* them that no earlier handler of the dispatch has unsubscribed, and no
\* subscriber that a handler adds meanwhile.  An asynchronous publish
\* schedules one unit per candidate, and a unit invokes the handler of its
\* candidate alone, and only if that subscriber is registered when the
\* unit runs.
C38_DispatchSnapshot ==
    [][/\ IsPublish(lastOp') =>
              \A t \in MatchedTokens(lastOp') : SeqHas(subscrs, t)
       /\ IsSyncPublish(lastOp') =>
              [i \in 1..Len(calls') |-> calls'[i].token] = InTurn(lastOp')
       /\ (IsPublish(lastOp') /\ IsAsync(lastOp')) =>
              /\ calls' = << >>
              /\ queue' = queue \o UnitsOf(lastOp')
       /\ lastOp'.op = "deferred" =>
              /\ queue # << >>
              /\ [i \in 1..Len(calls') |-> calls'[i].token]
                     = IF SeqHas(subscrs, Head(queue).token)
                       THEN << Head(queue).token >>
                       ELSE << >>]_vars

\* in a synchronous publish the handler of the first candidate
\* unsubscribed token 1, the second candidate, which was not invoked; the
\* third candidate was
C38_Witness ==
    /\ IsSyncPublish(lastOp)
    /\ Len(lastOp.matched) = 3
    /\ lastOp.matched[2].token = 1
    /\ objects[0].handler = "h_unsubscribe_1"
    /\ [i \in 1..Len(calls) |-> calls[i].token] = << 0, 2 >>
    /\ subscrs = << 0, 2 >>

\* in a synchronous publish a handler subscribed a new subscriber to the
\* published topic, which is registered and was not invoked
C38_WitnessAdded ==
    /\ IsSyncPublish(lastOp)
    /\ Len(lastOp.matched) = 1
    /\ Len(calls) = 1
    /\ objects[calls[1].token].handler = "h_subscribe"
    /\ Len(subscrs) = 2
    /\ objects[subscrs[2]].topic = lastOp.args.topic

\* the unit of token 1 ran without invocation, after the unit of token 0
\* of the same publish had unsubscribed token 1
C38_WitnessDeferred ==
    /\ lastOp.op = "deferred"
    /\ lastOp.args.token = 1
    /\ calls = << >>
    /\ objects[0].handler = "h_unsubscribe_1"
    /\ subscrs = << 0 >>

\* a unit ran the handler h_subscribe, and the subscriber it added has no
\* unit pending
C38_WitnessDeferredAdded ==
    /\ lastOp.op = "deferred"
    /\ Len(calls) = 1
    /\ objects[calls[1].token].handler = "h_subscribe"
    /\ subscrs = << 0, 1 >>
    /\ calls[1].token = 0
    /\ queue = << >>

-----------------------------------------------------------------------------
(* Properties of the run of the deferred units (SpecDrain) *)

\* C40: no call removes, repeats or reorders a pending unit: a publish or
\* a subscribe only adds units behind the pending ones, and the run of a
\* unit removes that unit alone, and invokes the handler of its subscriber
\* once, with the topic and payload of the unit, or not at all when the
\* subscriber is not registered any more.  Under a fair first-in-first-out
\* run of the units, the unit at the head eventually runs, and once the
\* publishes and subscribes have ended no unit stays pending.
C40_DeferredUnitsRunOnce ==
    /\ [][/\ lastOp'.op = "deferred" =>
                 /\ queue # << >>
                 /\ lastOp'.args = Head(queue)
                 /\ queue' = Tail(queue)
                 /\ IF SeqHas(subscrs, Head(queue).token)
                    THEN /\ Len(calls') = 1
                         /\ calls'[1].token = Head(queue).token
                         /\ calls'[1].topic = Head(queue).topic
                         /\ calls'[1].data = Head(queue).data
                    ELSE calls' = << >>
          /\ lastOp'.op # "deferred" =>
                 /\ Len(queue') >= Len(queue)
                 /\ SubSeq(queue', 1, Len(queue)) = queue
          /\ (IsPublish(lastOp') /\ IsAsync(lastOp')) =>
                 queue' = queue \o UnitsOf(lastOp')]_vars
    /\ \A t \in 0..(DrainTokens - 1) :
           (queue # << >> /\ Head(queue).token = t)
               ~> (lastOp.op = "deferred" /\ lastOp.args.token = t)
    /\ <>[](queue = << >>)

\* the unit of a replay, scheduled by a persistent subscribe, has run and
\* invoked the handler, and no unit is pending
C40_Witness ==
    /\ lastOp.op = "deferred"
    /\ FieldIs(objects[lastOp.args.token].options, "persist", TRUE)
    /\ lastOp.args.options = objects[lastOp.args.token].options
    /\ Len(calls) = 1
    /\ queue = << >>
    /\ Len(persistentMessages) = 2

\* the unit of a subscriber that was unsubscribed meanwhile has run without
\* invocation while another unit is pending
C40_WitnessSkipped ==
    /\ lastOp.op = "deferred"
    /\ ~ SeqHas(subscrs, lastOp.args.token)
    /\ calls = << >>
    /\ Len(queue) = 1

\* two units of one publish are pending
C40_WitnessPending ==
    /\ IsPublish(lastOp)
    /\ Len(queue) = 2
    /\ queue[1].topic = queue[2].topic
    /\ queue[1].token # queue[2].token

====
